---- MODULE Spec2Model ----
(***************************************************************************)
(* A model of the wasmdbg debug session (wasmdbg/src/debugger.rs), the     *)
(* File it owns (wasmdbg/src/file.rs), the breakpoint registry and the     *)
(* virtual machine it drives.                                              *)
(*                                                                         *)
(* The session is Debugger { file, vm, info }.  A File holds two Arc       *)
(* handles (module, breakpoints); a VM holds clones of the same handles.   *)
(* Arc identity is modelled by cell ids: `heap` maps the id of every live  *)
(* Arc<Mutex<Breakpoints>> to the registry stored in it.                   *)
(***************************************************************************)
EXTENDS Integers, Sequences, FiniteSets, TLC

VARIABLES
    file,       \* Option<File>: <<>> or <<[file_path, module, id]>>
    vm,         \* Option<VM>:   <<>> or <<vm record>>
    info,       \* Option<DebugInfo>: <<>> or <<[function_name_map, local_name_map]>>
    heap,       \* live Arc<Mutex<Breakpoints>> cells: id -> registry
    last,       \* the last session operation: op, arg, ret, and what the session held before it
    issued,     \* indices returned by add_breakpoint during the current File's lifetime
    srv,        \* the front end: the handler type F, the session Mutex, the requests received
    callers     \* the front end's request handlers in flight: pc, request, reply

vars == <<file, vm, info, heap, last, issued, srv, callers>>

-----------------------------------------------------------------------------
(* Bounds of the model.                                                    *)

\* add_breakpoint is not offered once next_index has reached this value
MaxBreakpoints == 2
\* call() is not offered on a VM whose function stack is this deep
MaxDepth == 1
\* the requests the front end handles at the same time
NumCallers == 2
\* the requests the front end receives
MaxRequests == 3

-----------------------------------------------------------------------------
(* Option<T>                                                               *)

None == <<>>
Some(x) == <<x>>
IsSome(o) == o # <<>>
Unwrap(o) == o[1]

-----------------------------------------------------------------------------
(* Results.  Every result is a record [tag, what, n] so that any two       *)
(* results can be compared.                                                *)

Ok(what, n) == [what |-> what, n |-> n, tag |-> "Ok"]
Err(e) == [what |-> e, n |-> 0, tag |-> "Err"]
OkUnit == Ok("()", 0)
OkIndex(i) == Ok("index", i)
OkBool(b) == Ok(IF b THEN "true" ELSE "false", 0)
\* the call did not return: it panicked with this message
Panic(message) == [what |-> message, n |-> 0, tag |-> "Panic"]

\* Trap: the VM's stop signal; NoTrap stands for VMResult Ok(())
Trap(kind, n) == [n |-> n, kind |-> kind]
NoTrap == Trap("None", 0)
\* DebuggerResult<Trap>: Ok(trap)
OkTrap(t) == Ok(t.kind, t.n)
\* DebuggerResult<Option<Trap>>: Ok(vmresult.err())
OkOptTrap(t) == Ok(t.kind, t.n)

-----------------------------------------------------------------------------
(* Modules on disk.  Module::from_file(path) parses the file; the model    *)
(* fixes what each path holds.                                             *)

I(op, arg) == [op |-> op, arg |-> arg]

\* a.wasm: function 0 has 3 instructions and calls function 1
ModuleA ==
    [ funcs    |-> << << I("call", 1), I("nop", 0), I("end", 0) >>,
                      << I("const", 7), I("global.set", 0), I("end", 0) >> >>,
      imported |-> {},
      nglobals |-> 2,
      memsize  |-> 0,
      entry    |-> 0,
      init_ok  |-> TRUE ]

\* b.wasm: function 0 is an import, function 1 stores to memory and calls it
ModuleB ==
    [ funcs    |-> << << >>,
                      << I("const", 5), I("store", 0), I("call", 0), I("end", 0) >> >>,
      imported |-> {0},
      nglobals |-> 1,
      memsize  |-> 1,
      entry    |-> 1,
      init_ok  |-> TRUE ]

\* c.wasm: parses, but a VM cannot be initialised from it
ModuleC ==
    [ funcs    |-> << << I("end", 0) >> >>,
      imported |-> {},
      nglobals |-> 0,
      memsize  |-> 0,
      entry    |-> 0,
      init_ok  |-> FALSE ]

\* d.wasm: function 0 calls function 1, which calls function 2
ModuleD ==
    [ funcs    |-> << << I("nop", 0), I("call", 1), I("end", 0) >>,
                      << I("nop", 0), I("call", 2), I("end", 0) >>,
                      << I("nop", 0), I("end", 0) >> >>,
      imported |-> {},
      nglobals |-> 0,
      memsize  |-> 0,
      entry    |-> 0,
      init_ok  |-> TRUE ]

\* bad.wasm is no module.  e.wasm is read twice by a load, by
\* Module::from_file (debugger.rs:62) and by DebugInfo::new
\* (debuginfo.rs:18): the first read parses it, the second cannot
Paths == {"a.wasm", "b.wasm", "c.wasm", "d.wasm", "e.wasm", "bad.wasm"}

\* Module::from_file: Ok(module) or Err(LoadError)
Module_from_file(path) ==
    CASE path = "a.wasm" -> Some(ModuleA)
      [] path = "b.wasm" -> Some(ModuleB)
      [] path = "c.wasm" -> Some(ModuleC)
      [] path = "d.wasm" -> Some(ModuleD)
      [] path = "e.wasm" -> Some(ModuleC)
      [] OTHER -> None

\* parity_wasm::deserialize_file as DebugInfo::new calls it: the module of
\* the file, or an error
deserialize_file(path) ==
    IF path \in {"a.wasm", "b.wasm", "c.wasm", "d.wasm"} THEN Some(path) ELSE None

\* Module::get_func(index)
get_func(m, index) ==
    IF index + 1 \in DOMAIN m.funcs THEN Some(m.funcs[index + 1]) ELSE None

\* Vec::get(index) on an instruction list
instructions_get(f, index) ==
    IF index + 1 \in DOMAIN f THEN Some(f[index + 1]) ELSE None

-----------------------------------------------------------------------------
(* Breakpoints: the registry.                                              *)

\* Breakpoint::Code(CodePosition{func_index, instr_index})
Code(f, i) == [y |-> i, x |-> f, kind |-> "Code"]
\* Breakpoint::Memory(addr, len)
Memory(a, l) == [y |-> l, x |-> a, kind |-> "Memory"]
\* Breakpoint::Global(trigger, index); the trigger is "write"
Global(g) == [y |-> 0, x |-> g, kind |-> "Global"]

\* Breakpoints::new()
Breakpoints_new == [entries |-> << >>, next_index |-> 0]

Indices(reg) == {e.index : e \in {reg.entries[k] : k \in DOMAIN reg.entries}}

\* Breakpoints::add_breakpoint: [reg, index]
Breakpoints_add_breakpoint(reg, bp) ==
    [ reg   |-> [ entries    |-> Append(reg.entries, [index |-> reg.next_index, bp |-> bp]),
                  next_index |-> reg.next_index + 1 ],
      index |-> reg.next_index ]

\* Breakpoints::delete_breakpoint: [reg, found]
Breakpoints_delete_breakpoint(reg, index) ==
    [ reg   |-> [ reg EXCEPT !.entries =
                      SelectSeq(reg.entries, LAMBDA e : e.index # index) ],
      found |-> index \in Indices(reg) ]

\* Breakpoints::clear
Breakpoints_clear(reg) == [reg EXCEPT !.entries = << >>]

-----------------------------------------------------------------------------
(* The virtual machine.                                                    *)

CodePosition(f, i) == [func_index |-> f, instr_index |-> i]
Frame(locals, ret_addr) == [locals |-> locals, ret_addr |-> ret_addr]

\* the parsed module behind an Arc<Module> handle
ModuleOf(arc) == Unwrap(Module_from_file(arc.path))

\* Breakpoints::find_code: the index of the first Code breakpoint at pos
find_code(reg, pos) ==
    LET hits == SelectSeq(reg.entries,
                    LAMBDA e : e.bp = Code(pos.func_index, pos.instr_index))
    IN IF hits = << >> THEN None ELSE Some(hits[1].index)

\* Breakpoints::find_global: the index of the first Global watchpoint on g
find_global(reg, g) ==
    LET hits == SelectSeq(reg.entries, LAMBDA e : e.bp = Global(g))
    IN IF hits = << >> THEN None ELSE Some(hits[1].index)

\* Breakpoints::find_memory: the first Memory watchpoint whose region holds addr
find_memory(reg, addr) ==
    LET hits == SelectSeq(reg.entries,
                    LAMBDA e : /\ e.bp.kind = "Memory"
                               /\ e.bp.x <= addr
                               /\ addr < e.bp.x + e.bp.y)
    IN IF hits = << >> THEN None ELSE Some(hits[1].index)

\* VM::new(module, breakpoints): Ok(vm) or Err(InitError)
VM_new(module, breakpoints) ==
    LET m == ModuleOf(module) IN
    IF ~m.init_ok THEN None
    ELSE Some([ module         |-> module,
                breakpoints    |-> breakpoints,
                ip             |-> CodePosition(m.entry, 0),
                value_stack    |-> << >>,
                function_stack |-> << >>,
                globals        |-> [g \in 1..m.nglobals |-> 0],
                memory         |-> [a \in 1..m.memsize |-> 0] ])

\* DefaultImportFunctionHandler::handle_import_function
handle_import_function(v) ==
    Trap("UnsupportedCallToImportedFunction", v.ip.func_index)

Pop(s) == SubSeq(s, 1, Len(s) - 1)
Top(s) == s[Len(s)]
Advance(v) == [v EXCEPT !.ip.instr_index = @ + 1]

\* entering function f from the current position
Enter(v, f, locals) ==
    [v EXCEPT !.function_stack = Append(@, Frame(locals, v.ip)),
              !.ip = CodePosition(f, 0)]

\* the instruction at ip executes: [vm, trap] before the code breakpoint check
Execute(v, reg) ==
    LET m   == ModuleOf(v.module)
        ins == m.funcs[v.ip.func_index + 1][v.ip.instr_index + 1]
    IN
    CASE ins.op = "nop" ->
            [vm |-> Advance(v), trap |-> NoTrap]
      [] ins.op = "const" ->
            [vm |-> Advance([v EXCEPT !.value_stack = Append(@, ins.arg)]),
             trap |-> NoTrap]
      [] ins.op = "global.set" ->
            LET w  == Advance([v EXCEPT !.globals[ins.arg + 1] = Top(v.value_stack),
                                        !.value_stack = Pop(@)])
                wp == find_global(reg, ins.arg)
            IN [vm |-> w,
                trap |-> IF IsSome(wp) THEN Trap("WatchpointReached", Unwrap(wp))
                         ELSE NoTrap]
      [] ins.op = "store" ->
            IF m.memsize = 0 THEN [vm |-> v, trap |-> Trap("NoMemory", 0)]
            ELSE IF ins.arg >= m.memsize
            THEN [vm |-> v, trap |-> Trap("MemoryAccessOutOfBounds", 0)]
            ELSE LET w  == Advance([v EXCEPT !.memory[ins.arg + 1] = Top(v.value_stack),
                                             !.value_stack = Pop(@)])
                     wp == find_memory(reg, ins.arg)
                 IN [vm |-> w,
                     trap |-> IF IsSome(wp) THEN Trap("WatchpointReached", Unwrap(wp))
                              ELSE NoTrap]
      [] ins.op = "call" ->
            IF ins.arg \in m.imported
            THEN [vm |-> v,
                  trap |-> handle_import_function(Enter(Advance(v), ins.arg, << >>))]
            ELSE [vm |-> Enter(Advance(v), ins.arg, << >>), trap |-> NoTrap]
      [] OTHER -> \* "end": the frame returns to its caller
            LET rest == Pop(v.function_stack) IN
            IF rest = << >>
            THEN [vm |-> [v EXCEPT !.function_stack = rest],
                  trap |-> Trap("ExecutionFinished", 0)]
            ELSE [vm |-> [v EXCEPT !.function_stack = rest,
                                   !.ip = Top(v.function_stack).ret_addr],
                  trap |-> NoTrap]

\* execute_step that looks for a code breakpoint at ip before it dispatches,
\* the position at which execution resumes included
VM_execute_step_checks_first(v, reg) ==
    IF v.function_stack = << >>
    THEN [vm |-> v, trap |-> Trap("ExecutionFinished", 0)]
    ELSE LET bp == find_code(reg, v.ip)
         IN IF IsSome(bp)
            THEN [vm |-> v, trap |-> Trap("BreakpointReached", Unwrap(bp))]
            ELSE Execute(v, reg)

\* VM::execute_step: one dispatch step, then the code breakpoint at the new ip
VM_execute_step(v, reg) ==
    IF v.function_stack = << >>
    THEN [vm |-> v, trap |-> Trap("ExecutionFinished", 0)]
    ELSE LET r  == Execute(v, reg)
             bp == find_code(reg, r.vm.ip)
         IN IF r.trap = NoTrap /\ IsSome(bp)
            THEN [vm |-> r.vm, trap |-> Trap("BreakpointReached", Unwrap(bp))]
            ELSE r

\* VM::continue_execution: dispatch until a trap
RECURSIVE VM_continue_execution(_, _)
VM_continue_execution(v, reg) ==
    LET r == VM_execute_step(v, reg) IN
    IF r.trap # NoTrap THEN r ELSE VM_continue_execution(r.vm, reg)

\* dispatch until a trap or until the call depth is at most d
RECURSIVE RunToDepth(_, _, _)
RunToDepth(v, reg, d) ==
    LET r == VM_execute_step(v, reg) IN
    IF r.trap # NoTrap \/ Len(r.vm.function_stack) <= d THEN r
    ELSE RunToDepth(r.vm, reg, d)

\* execute_step_over that also stops one frame deeper
VM_execute_step_over_into(v, reg) == RunToDepth(v, reg, Len(v.function_stack) + 1)

\* VM::execute_step_over
VM_execute_step_over(v, reg) == RunToDepth(v, reg, Len(v.function_stack))

\* VM::execute_step_out
VM_execute_step_out(v, reg) == RunToDepth(v, reg, Len(v.function_stack) - 1)

\* entering function index with args as its locals
VM_run_func_args(v, index, args) == Enter(v, index, args)

\* VM::run_func(index, args)
VM_run_func(v, reg, index, args) ==
    VM_continue_execution(VM_run_func_args(v, index, args), reg)

\* VM::start: execution begins at the entry point and runs to the first trap
VM_start(v, reg) ==
    VM_run_func(v, reg, ModuleOf(v.module).entry, << >>)

\* VM::run
VM_run(v, reg) == VM_start(v, reg)

-----------------------------------------------------------------------------
(* Debug symbols (debuginfo.rs).                                           *)

\* a call that panics instead of returning, and one that returns out
Panicked == [panic |-> TRUE, out |-> << >>]
Returned(out) == [panic |-> FALSE, out |-> out]

\* the name section of a module, if it has one: the function names and the
\* local names, each optional.  a.wasm names its functions and a local of
\* function 1, d.wasm names functions only
names_section(module) ==
    CASE module = "a.wasm" ->
             Some([ functions |-> Some((0 :> "main") @@ (1 :> "seven")),
                    locals    |-> Some(1 :> (0 :> "x")) ])
      [] module = "d.wasm" ->
             Some([ functions |-> Some((0 :> "f0") @@ (2 :> "f2")),
                    locals    |-> None ])
      [] OTHER -> None

\* DebugInfo::new(file_path): the file is parsed again, and the call panics
\* ("module invalid") when that fails; both maps are filled from the name
\* section
DebugInfo_new(path) ==
    LET module == deserialize_file(path)
        ns     == names_section(Unwrap(module))
    IN IF module = None THEN Panicked
       ELSE Returned(
                [ function_name_map |->
                      IF IsSome(ns) /\ IsSome(Unwrap(ns).functions)
                      THEN Unwrap(Unwrap(ns).functions) ELSE << >>,
                  local_name_map |->
                      IF IsSome(ns) /\ IsSome(Unwrap(ns).locals)
                      THEN Unwrap(Unwrap(ns).locals) ELSE << >> ])

-----------------------------------------------------------------------------
(* File (file.rs) and the Arc cells.                                       *)

Ids == 1..3

\* the ids of the cells some handle of the session refers to
Referenced(f, v) ==
    (IF IsSome(f) THEN {Unwrap(f).breakpoints} ELSE {}) \cup
    (IF IsSome(v) THEN {Unwrap(v).breakpoints} ELSE {})

\* Arc::new: a cell that is not live
FreshId(s) == CHOOSE i \in Ids : i \notin DOMAIN s.heap /\
                  \A j \in Ids : j \notin DOMAIN s.heap => i <= j

\* dropping the last handle of a cell frees it
Drop(s) ==
    [s EXCEPT !.heap = [i \in DOMAIN s.heap \cap Referenced(s.file, s.vm) |-> s.heap[i]]]

\* File::new(file_path, module): both Arcs are allocated here
File_new(path, id) ==
    [ file_path   |-> path,
      module      |-> [id |-> id, path |-> path],
      breakpoints |-> id ]

\* File::breakpoints_and_unlock: the registry behind the File's handle
breakpoints_and_unlock(s) == s.heap[Unwrap(s.file).breakpoints]

\* the registry behind the VM's handle
vm_breakpoints(s) == s.heap[Unwrap(s.vm).breakpoints]

\* writing through the File's handle
WithRegistry(s, reg) == [s EXCEPT !.heap[Unwrap(s.file).breakpoints] = reg]

-----------------------------------------------------------------------------
(* Debugger (debugger.rs).  A session value s is [file, vm, info, heap];   *)
(* every operation yields the session after it and its result.             *)

\* Debugger::new
Debugger_new == [file |-> None, vm |-> None, info |-> None, heap |-> << >>]

\* load_file that leaves the VM of the previous File in place
load_file_keeps_vm(s, path) ==
    LET module == Module_from_file(path)
        debug  == DebugInfo_new(path)
    IN
    IF module = None THEN [s |-> s, ret |-> Err("LoadError")]
    ELSE IF debug.panic THEN [s |-> s, ret |-> Panic("module invalid")]
    ELSE LET id == FreshId(s)
             t  == [s EXCEPT !.heap = [i \in DOMAIN s.heap \cup {id} |->
                                          IF i = id THEN Breakpoints_new ELSE s.heap[i]]]
         IN [s |-> Drop([t EXCEPT !.info = Some(debug.out),
                                  !.file = Some(File_new(path, id))]),
             ret |-> OkUnit]

\* Debugger::load_file: the module is parsed, then DebugInfo::new reads the
\* file again and its panic leaves the call before any field is assigned
load_file(s, path) ==
    LET module == Module_from_file(path)
        debug  == DebugInfo_new(path)
    IN
    IF module = None THEN [s |-> s, ret |-> Err("LoadError")]
    ELSE IF debug.panic THEN [s |-> s, ret |-> Panic("module invalid")]
    ELSE LET id == FreshId(s)
             t  == [s EXCEPT !.heap = [i \in DOMAIN s.heap \cup {id} |->
                                          IF i = id THEN Breakpoints_new ELSE s.heap[i]]]
         IN [s |-> Drop([t EXCEPT !.info = Some(debug.out),
                                  !.file = Some(File_new(path, id)),
                                  !.vm = None]),
             ret |-> OkUnit]

\* Debugger::function_name
function_name(s, func_index) ==
    IF IsSome(s.info) /\ func_index \in DOMAIN Unwrap(s.info).function_name_map
    THEN Some(Unwrap(s.info).function_name_map[func_index])
    ELSE None

\* Debugger::local_name
local_name(s, func_index, local_index) ==
    IF IsSome(s.info) /\ func_index \in DOMAIN Unwrap(s.info).local_name_map
    THEN LET local_name_map == Unwrap(s.info).local_name_map[func_index] IN
         IF local_index \in DOMAIN local_name_map
         THEN Some(local_name_map[local_index]) ELSE None
    ELSE None

\* Debugger::get_file / get_file_mut
get_file(s) == IF IsSome(s.file) THEN "" ELSE "NoFileLoaded"

\* Debugger::get_vm / get_vm_mut
get_vm_mut(s) == IF IsSome(s.vm) THEN "" ELSE "NoRunningInstance"

\* the validation with the global index compared by > instead of >=
validate_breakpoint_off_by_one(m, bp) ==
    CASE bp.kind = "Code" ->
            LET func == get_func(m, bp.x) IN
            IF IsSome(func) /\ IsSome(instructions_get(Unwrap(func), bp.y))
            THEN "" ELSE "InvalidBreakpointPosition"
      [] bp.kind = "Memory" -> ""
      [] OTHER ->
            IF bp.x > m.nglobals THEN "InvalidWatchpointGlobal" ELSE ""

\* the validation of Debugger::add_breakpoint: "" or the error
validate_breakpoint(m, bp) ==
    CASE bp.kind = "Code" ->
            LET func == get_func(m, bp.x) IN
            IF IsSome(func) /\ IsSome(instructions_get(Unwrap(func), bp.y))
            THEN "" ELSE "InvalidBreakpointPosition"
      [] bp.kind = "Memory" -> ""
      [] OTHER ->
            IF bp.x >= m.nglobals THEN "InvalidWatchpointGlobal" ELSE ""

\* add_breakpoint that inserts first and takes the entry out again on rejection
add_breakpoint_allocates_first(s, bp) ==
    IF get_file(s) # "" THEN [s |-> s, ret |-> Err(get_file(s))]
    ELSE LET a == Breakpoints_add_breakpoint(breakpoints_and_unlock(s), bp)
             e == validate_breakpoint(ModuleOf(Unwrap(s.file).module), bp)
         IN IF e # ""
            THEN [s |-> WithRegistry(s, Breakpoints_delete_breakpoint(a.reg, a.index).reg),
                  ret |-> Err(e)]
            ELSE [s |-> WithRegistry(s, a.reg), ret |-> OkIndex(a.index)]

\* Debugger::add_breakpoint
add_breakpoint(s, bp) ==
    IF get_file(s) # "" THEN [s |-> s, ret |-> Err(get_file(s))]
    ELSE LET e == validate_breakpoint(ModuleOf(Unwrap(s.file).module), bp) IN
         IF e # "" THEN [s |-> s, ret |-> Err(e)]
         ELSE LET a == Breakpoints_add_breakpoint(breakpoints_and_unlock(s), bp)
              IN [s |-> WithRegistry(s, a.reg), ret |-> OkIndex(a.index)]

\* delete_breakpoint that reports success whatever the registry answered
delete_breakpoint_always_true(s, index) ==
    IF get_file(s) # "" THEN [s |-> s, ret |-> Err(get_file(s))]
    ELSE LET d == Breakpoints_delete_breakpoint(breakpoints_and_unlock(s), index)
         IN [s |-> WithRegistry(s, d.reg), ret |-> OkBool(TRUE)]

\* Debugger::delete_breakpoint
delete_breakpoint(s, index) ==
    IF get_file(s) # "" THEN [s |-> s, ret |-> Err(get_file(s))]
    ELSE LET d == Breakpoints_delete_breakpoint(breakpoints_and_unlock(s), index)
         IN [s |-> WithRegistry(s, d.reg), ret |-> OkBool(d.found)]

\* clear_breakpoints that succeeds when no File is loaded
clear_breakpoints_lenient(s) ==
    IF get_file(s) # "" THEN [s |-> s, ret |-> OkUnit]
    ELSE [s |-> WithRegistry(s, Breakpoints_clear(breakpoints_and_unlock(s))),
          ret |-> OkUnit]

\* clear_breakpoints that replaces the registry by a new one
clear_breakpoints_resets(s) ==
    IF get_file(s) # "" THEN [s |-> s, ret |-> Err(get_file(s))]
    ELSE [s |-> WithRegistry(s, Breakpoints_new), ret |-> OkUnit]

\* Debugger::clear_breakpoints
clear_breakpoints(s) ==
    IF get_file(s) # "" THEN [s |-> s, ret |-> Err(get_file(s))]
    ELSE [s |-> WithRegistry(s, Breakpoints_clear(breakpoints_and_unlock(s))),
          ret |-> OkUnit]

\* create_vm that takes the File out of the session and puts it back only
\* with the VM built
create_vm_takes_file(s) ==
    IF ~IsSome(s.file) THEN [s |-> s, err |-> "NoFileLoaded"]
    ELSE LET f == Unwrap(s.file)
             v == VM_new(f.module, f.breakpoints)
         IN IF v = None THEN [s |-> Drop([s EXCEPT !.file = None]), err |-> "InitError"]
            ELSE [s |-> Drop([s EXCEPT !.vm = v]), err |-> ""]

\* create_vm that hands the VM a copy of the registry as it is now, in a cell
\* of its own
create_vm_snapshot(s) ==
    IF ~IsSome(s.file) THEN [s |-> s, err |-> "NoFileLoaded"]
    ELSE LET f  == Unwrap(s.file)
             u  == Drop([s EXCEPT !.vm = None])
             id == FreshId(u)
             v  == VM_new(f.module, id)
         IN IF v = None THEN [s |-> s, err |-> "InitError"]
            ELSE [s |-> [u EXCEPT !.vm = v,
                                  !.heap = [i \in DOMAIN u.heap \cup {id} |->
                                               IF i = id THEN breakpoints_and_unlock(u)
                                               ELSE u.heap[i]]],
                  err |-> ""]

\* Debugger::create_vm: the session with the new VM, or the error
create_vm(s) ==
    IF ~IsSome(s.file) THEN [s |-> s, err |-> "NoFileLoaded"]
    ELSE LET f == Unwrap(s.file)
             v == VM_new(f.module, f.breakpoints)
         IN IF v = None THEN [s |-> s, err |-> "InitError"]
            ELSE [s |-> Drop([s EXCEPT !.vm = v]), err |-> ""]

\* Debugger::ensure_vm
ensure_vm(s) ==
    IF IsSome(s.vm) THEN [s |-> s, err |-> ""] ELSE create_vm(s)

\* Debugger::run
run(s) ==
    LET c == create_vm(s) IN
    IF c.err # "" THEN [s |-> c.s, ret |-> Err(c.err)]
    ELSE LET r == VM_run(Unwrap(c.s.vm), vm_breakpoints(c.s))
         IN [s |-> [c.s EXCEPT !.vm = Some(r.vm)], ret |-> OkTrap(r.trap)]

\* start on ensure_vm instead of create_vm
start_reuses_vm(s) ==
    LET c == ensure_vm(s) IN
    IF c.err # "" THEN [s |-> c.s, ret |-> Err(c.err)]
    ELSE LET r == VM_start(Unwrap(c.s.vm), vm_breakpoints(c.s))
         IN [s |-> [c.s EXCEPT !.vm = Some(r.vm)], ret |-> OkOptTrap(r.trap)]

\* Debugger::start
start(s) ==
    LET c == create_vm(s) IN
    IF c.err # "" THEN [s |-> c.s, ret |-> Err(c.err)]
    ELSE LET r == VM_start(Unwrap(c.s.vm), vm_breakpoints(c.s))
         IN [s |-> [c.s EXCEPT !.vm = Some(r.vm)], ret |-> OkOptTrap(r.trap)]

\* Debugger::call
call(s, index, args) ==
    LET c == ensure_vm(s) IN
    IF c.err # "" THEN [s |-> c.s, ret |-> Err(c.err)]
    ELSE LET r == VM_run_func(Unwrap(c.s.vm), vm_breakpoints(c.s), index, args)
         IN [s |-> [c.s EXCEPT !.vm = Some(r.vm)], ret |-> OkTrap(r.trap)]

\* reset_vm that also empties the File's registry
reset_vm_clears(s) ==
    LET t == Drop([s EXCEPT !.vm = None]) IN
    [s |-> IF IsSome(t.file)
           THEN WithRegistry(t, Breakpoints_clear(breakpoints_and_unlock(t)))
           ELSE t,
     ret |-> OkUnit]

\* reset_vm that asks for the VM it is to remove
reset_vm_needs_vm(s) ==
    IF get_vm_mut(s) # "" THEN [s |-> s, ret |-> Err(get_vm_mut(s))]
    ELSE [s |-> Drop([s EXCEPT !.vm = None]), ret |-> OkUnit]

\* Debugger::reset_vm
reset_vm(s) == [s |-> Drop([s EXCEPT !.vm = None]), ret |-> OkUnit]

\* continue_execution that discards the VM once execution has finished
continue_execution_drops_finished(s) ==
    IF get_vm_mut(s) # "" THEN [s |-> s, ret |-> Err(get_vm_mut(s))]
    ELSE LET r == VM_continue_execution(Unwrap(s.vm), vm_breakpoints(s))
         IN [s |-> IF r.trap = Trap("ExecutionFinished", 0)
                   THEN Drop([s EXCEPT !.vm = None])
                   ELSE [s EXCEPT !.vm = Some(r.vm)],
             ret |-> OkTrap(r.trap)]

\* Debugger::continue_execution
continue_execution(s) ==
    IF get_vm_mut(s) # "" THEN [s |-> s, ret |-> Err(get_vm_mut(s))]
    ELSE LET r == VM_continue_execution(Unwrap(s.vm), vm_breakpoints(s))
         IN [s |-> [s EXCEPT !.vm = Some(r.vm)], ret |-> OkTrap(r.trap)]

\* execute_step that runs a called function to its return
execute_step_skips_calls(s) ==
    IF get_vm_mut(s) # "" THEN [s |-> s, ret |-> Err(get_vm_mut(s))]
    ELSE LET r == VM_execute_step_over(Unwrap(s.vm), vm_breakpoints(s))
         IN [s |-> [s EXCEPT !.vm = Some(r.vm)], ret |-> OkOptTrap(r.trap)]

\* execute_step on ensure_vm instead of get_vm_mut
execute_step_lazy(s) ==
    LET c == ensure_vm(s) IN
    IF c.err # "" THEN [s |-> c.s, ret |-> Err(c.err)]
    ELSE LET r == VM_execute_step(Unwrap(c.s.vm), vm_breakpoints(c.s))
         IN [s |-> [c.s EXCEPT !.vm = Some(r.vm)], ret |-> OkOptTrap(r.trap)]

\* Debugger::execute_step
execute_step(s) ==
    IF get_vm_mut(s) # "" THEN [s |-> s, ret |-> Err(get_vm_mut(s))]
    ELSE LET r == VM_execute_step(Unwrap(s.vm), vm_breakpoints(s))
         IN [s |-> [s EXCEPT !.vm = Some(r.vm)], ret |-> OkOptTrap(r.trap)]

\* execute_step_over that dispatches one instruction only
execute_step_over_single(s) ==
    IF get_vm_mut(s) # "" THEN [s |-> s, ret |-> Err(get_vm_mut(s))]
    ELSE LET r == VM_execute_step(Unwrap(s.vm), vm_breakpoints(s))
         IN [s |-> [s EXCEPT !.vm = Some(r.vm)], ret |-> OkOptTrap(r.trap)]

\* Debugger::execute_step_over
execute_step_over(s) ==
    IF get_vm_mut(s) # "" THEN [s |-> s, ret |-> Err(get_vm_mut(s))]
    ELSE LET r == VM_execute_step_over(Unwrap(s.vm), vm_breakpoints(s))
         IN [s |-> [s EXCEPT !.vm = Some(r.vm)], ret |-> OkOptTrap(r.trap)]

\* execute_step_out that stops at the depth it started from
execute_step_out_same_depth(s) ==
    IF get_vm_mut(s) # "" THEN [s |-> s, ret |-> Err(get_vm_mut(s))]
    ELSE LET r == VM_execute_step_over(Unwrap(s.vm), vm_breakpoints(s))
         IN [s |-> [s EXCEPT !.vm = Some(r.vm)], ret |-> OkOptTrap(r.trap)]

\* Debugger::execute_step_out
execute_step_out(s) ==
    IF get_vm_mut(s) # "" THEN [s |-> s, ret |-> Err(get_vm_mut(s))]
    ELSE LET r == VM_execute_step_out(Unwrap(s.vm), vm_breakpoints(s))
         IN [s |-> [s EXCEPT !.vm = Some(r.vm)], ret |-> OkOptTrap(r.trap)]

\* DebuggerResult<Vec<CodePosition>>, DebuggerResult<&[Value]>: Ok(list)
OkList(what, xs) == [what |-> what, n |-> xs, tag |-> "Ok"]

\* backtrace that lists the return addresses in call order
backtrace_call_order(s) ==
    IF get_vm_mut(s) # "" THEN [s |-> s, ret |-> Err(get_vm_mut(s))]
    ELSE LET v  == Unwrap(s.vm)
             fs == v.function_stack
             n  == Len(fs)
         IN [s |-> s,
             ret |-> OkList("positions",
                            <<v.ip>> \o [k \in 1..(IF n = 0 THEN 0 ELSE n - 1) |->
                                            fs[k + 1].ret_addr])]

\* backtrace that does not skip the outermost frame
backtrace_all_frames(s) ==
    IF get_vm_mut(s) # "" THEN [s |-> s, ret |-> Err(get_vm_mut(s))]
    ELSE LET v  == Unwrap(s.vm)
             fs == v.function_stack
             n  == Len(fs)
         IN [s |-> s,
             ret |-> OkList("positions",
                            <<v.ip>> \o [k \in 1..n |-> fs[n - k + 1].ret_addr])]

\* Debugger::backtrace: the ip, then the return addresses of the frames after
\* the first, last frame first
backtrace(s) ==
    IF get_vm_mut(s) # "" THEN [s |-> s, ret |-> Err(get_vm_mut(s))]
    ELSE LET v  == Unwrap(s.vm)
             fs == v.function_stack
             n  == Len(fs)
         IN [s |-> s,
             ret |-> OkList("positions",
                            <<v.ip>> \o [k \in 1..(IF n = 0 THEN 0 ELSE n - 1) |->
                                            fs[n - k + 1].ret_addr])]

\* globals read from the module's initial values instead of the VM
globals_initial(s) ==
    IF get_vm_mut(s) # "" THEN [s |-> s, ret |-> Err(get_vm_mut(s))]
    ELSE [s |-> s,
          ret |-> OkList("globals",
                         [g \in 1..ModuleOf(Unwrap(s.vm).module).nglobals |-> 0])]

\* Debugger::globals
globals(s) ==
    IF get_vm_mut(s) # "" THEN [s |-> s, ret |-> Err(get_vm_mut(s))]
    ELSE [s |-> s, ret |-> OkList("globals", Unwrap(s.vm).globals)]

\* Debugger::memory
memory(s) ==
    IF get_vm_mut(s) # "" THEN [s |-> s, ret |-> Err(get_vm_mut(s))]
    ELSE IF ModuleOf(Unwrap(s.vm).module).memsize = 0
         THEN [s |-> s, ret |-> Err("NoMemory")]
         ELSE [s |-> s, ret |-> OkList("memory", Unwrap(s.vm).memory)]

\* Debugger::get_vm, then VM::value_stack
value_stack(s) ==
    IF get_vm_mut(s) # "" THEN [s |-> s, ret |-> Err(get_vm_mut(s))]
    ELSE [s |-> s, ret |-> OkList("values", Unwrap(s.vm).value_stack)]

\* Debugger::get_vm, then VM::function_stack: the locals of every frame
locals(s) ==
    IF get_vm_mut(s) # "" THEN [s |-> s, ret |-> Err(get_vm_mut(s))]
    ELSE LET fs == Unwrap(s.vm).function_stack
         IN [s |-> s, ret |-> OkList("locals", [k \in DOMAIN fs |-> fs[k].locals])]

\* the inspection queries
Queries == {"backtrace", "globals", "memory", "value_stack", "locals"}

Query(s, q) ==
    CASE q = "backtrace" -> backtrace(s)
      [] q = "globals" -> globals(s)
      [] q = "memory" -> memory(s)
      [] q = "value_stack" -> value_stack(s)
      [] OTHER -> locals(s)

-----------------------------------------------------------------------------
(* The import-call bridge of the gRPC front end                            *)
(* (wasmdbg-grpc/src/debugger.rs).  The handler is called with the VM      *)
(* inside the imported function: its frame is pushed with the arguments as *)
(* locals and ip.func_index is the index of the imported function.         *)

\* the type parameter F of Debugger<F>
Handlers == {"default", "grpc"}

\* what comes back from the remote side: the connection fails, the RPC
\* fails, the worker thread dies, or a response arrives
BridgeFailures == {"connect", "rpc", "thread"}
Failure(kind) ==
    [globals |-> << >>, memory |-> << >>, kind |-> kind, return_value |-> None]
Response(return_value, gs, mem) ==
    [globals |-> gs, memory |-> mem, kind |-> "response", return_value |-> return_value]

\* what a handler leaves: the VM, the trap it returns (NoTrap: Ok(())), and
\* whether it panicked instead of returning
Handled(v, trap, panic) == [vm |-> v, trap |-> trap, panic |-> panic]

\* the VM as the handler sees it, from the VM standing on the call instruction
HandlerView(v) ==
    LET ins == ModuleOf(v.module).funcs[v.ip.func_index + 1][v.ip.instr_index + 1]
    IN Enter(Advance(v), ins.arg, << >>)

\* the VM standing on the call instruction again
CallSite(h) ==
    LET ret == Top(h.function_stack).ret_addr IN
    [h EXCEPT !.function_stack = Pop(@),
              !.ip = CodePosition(ret.func_index, ret.instr_index - 1)]

\* the imported function returns to its caller
Leave(h) ==
    [h EXCEPT !.function_stack = Pop(@), !.ip = Top(h.function_stack).ret_addr]

\* wasm_debugger_grpc::Value (utils.rs): the message holds an optional
\* variant.  from_value always sets it; to_value unwraps it and panics on a
\* message without one
Unset == [value |-> None]
Value_from_value(value) == [value |-> Some(value)]
Value_to_value(self) ==
    IF self.value = None THEN Panicked ELSE Returned(Unwrap(self.value))

\* RunImportFunctionRequest, lines 13-23 and 39-44
RunImportFunctionRequest(h) ==
    [ func_index |-> h.ip.func_index,
      globals    |-> [i \in DOMAIN h.globals |-> Value_from_value(h.globals[i])],
      memory     |-> h.memory,
      args       |-> LET args == Top(h.function_stack).locals IN
                     [i \in DOMAIN args |-> Value_from_value(args[i])] ]

\* lines 60-69: the return value is converted and pushed, then globals[i]
\* and memory[i] are assigned for every i of the response.  A value without
\* a variant panics in to_value and an index past the VM's own vector panics
\* in the assignment, each with what was assigned before it
write_back(h, response) ==
    LET rv == response.return_value
        a  == IF IsSome(rv) /\ ~Value_to_value(Unwrap(rv)).panic
              THEN [h EXCEPT !.value_stack = Append(@, Value_to_value(Unwrap(rv)).out)]
              ELSE h
        ng == Len(a.globals)
        nr == Len(response.globals)
        bad  == {i \in 1..nr : i > ng \/ Value_to_value(response.globals[i]).panic}
        stop == IF bad = {} THEN nr + 1 ELSE CHOOSE i \in bad : \A j \in bad : i <= j
        b  == [a EXCEPT !.globals = [i \in 1..ng |->
                  IF i < stop THEN Value_to_value(response.globals[i]).out
                  ELSE a.globals[i]]]
        nm == Len(b.memory)
        mr == Len(response.memory)
        c  == [b EXCEPT !.memory = [i \in 1..nm |->
                  IF i <= mr THEN response.memory[i] ELSE b.memory[i]]]
    IN IF IsSome(rv) /\ Value_to_value(Unwrap(rv)).panic THEN Handled(h, NoTrap, TRUE)
       ELSE IF bad # {} THEN Handled(b, NoTrap, TRUE)
       ELSE IF mr > nm THEN Handled(c, NoTrap, TRUE)
       ELSE Handled(c, NoTrap, FALSE)

\* the handler with the response written back before the outcome is looked at
grpc_handle_import_function_writes_first(h, answer) ==
    IF answer.kind # "response"
    THEN Handled(write_back(h, Response(Some(Value_from_value(0)), << >>, << 1 >>)).vm,
                 Trap("UnsupportedCallToImportedFunction",
                      RunImportFunctionRequest(h).func_index),
                 FALSE)
    ELSE write_back(h, answer)

\* GrpcImportHandler::handle_import_function
grpc_handle_import_function(h, answer) ==
    IF h.function_stack = << >> THEN Handled(h, NoTrap, TRUE)
    ELSE IF ModuleOf(h.module).memsize = 0
    THEN Handled(h, Trap("NoMemory", 0), FALSE)
    ELSE IF answer.kind # "response"
    THEN Handled(h, Trap("UnsupportedCallToImportedFunction",
                         RunImportFunctionRequest(h).func_index), FALSE)
    ELSE write_back(h, answer)

-----------------------------------------------------------------------------
(* The gRPC front end (wasmdbg-grpc/src/debugger_server.rs): the request   *)
(* handlers of WasmDebuggerImpl, each on the session behind the Mutex.     *)

\* NormalReply, AddBreakpointReply, GetLocalReply, ...: status, error_reason
\* and what else the reply carries
Reply(status, error_reason, payload) ==
    [status |-> status, error_reason |-> error_reason, payload |-> payload]
NoReply == Reply("", "", << >>)

\* format!("{}", err) of a DebuggerError (debugger.rs:11-27) or a LoadError;
\* the text of an InitError goes on with the text of the error it wraps,
\* written <InitError> here
Display(e) ==
    CASE e = "InitError" -> "Failed to initialize wasm instance: " \o "<InitError>"
      [] e = "NoFileLoaded" -> "No binary file loaded"
      [] e = "NoRunningInstance" -> "The binary is not being run"
      [] e = "NoMemory" -> "No memory present"
      [] e = "InvalidBreakpointPosition" -> "Invalid brekapoint position"
      [] e = "InvalidWatchpointGlobal" -> "Invalid global for watchpoint"
      [] e = "Unimplemented" -> "This feature is still unimplemented"
      [] OTHER -> e

\* a request handler under way: the session as it leaves it, where it
\* stands, and the reply it has built
Handling(s, pc, reply) == [s |-> s, pc |-> pc, reply |-> reply]

\* run_code, lines 72-88: the reply to the result of the Debugger call; the
\* error_reason of a fault is the trap formatted, its argument included
run_reply(ret) ==
    IF ret.tag = "Err" THEN Reply("Nok", Display(ret.what), << >>)
    ELSE CASE ret.what = "None" -> Reply("Ok", "", << >>)
           [] ret.what = "ExecutionFinished" -> Reply("Finish", "", << >>)
           [] ret.what \in {"WatchpointReached", "BreakpointReached"} ->
                  Reply("Ok", "", << >>)
           [] OTHER -> Reply("Nok", ret.what, << ret.n >>)

\* run_code, lines 59-71, once the Debugger call has returned ret: Start has
\* one more access to the session before it replies
run_code_returns(s, t, ret) ==
    IF t = "Start" /\ ret.tag = "Ok" THEN Handling(s, "started", run_reply(ret))
    ELSE Handling(s, "replying", run_reply(ret))

\* the handler has what came back from the remote side
responded(s, t, answer) ==
    LET r == grpc_handle_import_function(Unwrap(s.vm), answer) IN
    IF r.panic THEN Handling([s EXCEPT !.vm = Some(r.vm)], "panicked", NoReply)
    ELSE IF r.trap # NoTrap
    THEN run_code_returns([s EXCEPT !.vm = Some(CallSite(r.vm))], t, OkOptTrap(r.trap))
    ELSE Handling([s EXCEPT !.vm = Some(r.vm)], "resume", NoReply)

\* the dispatch loop of a Debugger<F> call has stopped with ret: on a call of
\* an imported function F's handler runs, and the gRPC handler waits for the
\* remote side unless it returns before asking
dispatched(s, F, t, ret) ==
    IF F = "grpc" /\ ret.tag = "Ok" /\ ret.what = "UnsupportedCallToImportedFunction"
    THEN LET h == HandlerView(Unwrap(s.vm))
             u == [s EXCEPT !.vm = Some(h)]
         IN IF ModuleOf(h.module).memsize = 0
            THEN responded(u, t, Failure("connect"))
            ELSE Handling(u, "bridge", NoReply)
    ELSE run_code_returns(s, t, ret)

\* the element of a set of one element
The(S) == CHOOSE x \in S : TRUE

\* RunCodeType::from_i32, line 48: the type the request's number names, if
\* it names one; the number is written as that name
RunCodeTypes == {"Start", "Step", "StepOut", "StepOver", "Continue"}
RunCodeType_from_i32(run_code_type) ==
    IF run_code_type \in RunCodeTypes THEN Some(run_code_type) ELSE None

\* run_code, lines 48-71: a number that names no type is answered at once,
\* the session untouched; otherwise the Debugger call of the type is made
run_code(s, F, run_code_type) ==
    IF RunCodeType_from_i32(run_code_type) = None
    THEN Handling(s, "replying", Reply("Nok", "invalud proto", << >>))
    ELSE LET t == Unwrap(RunCodeType_from_i32(run_code_type)) IN
         The({ dispatched(o.s, F, t, o.ret) :
               o \in { CASE t = "Start" -> start(s)
                         [] t = "Step" -> execute_step(s)
                         [] t = "StepOut" -> execute_step_out(s)
                         [] t = "StepOver" -> execute_step_over(s)
                         [] t = "Continue" -> continue_execution(s) } })

\* the handler has returned Ok(()): the imported function returns and the
\* dispatch loop of the call goes on; d is the call depth the call began at
resumed(s, F, t, d) ==
    LET v   == Leave(Unwrap(s.vm))
        reg == vm_breakpoints(s)
        bp  == find_code(reg, v.ip)
        r   == IF IsSome(bp)
               THEN [vm |-> v, trap |-> Trap("BreakpointReached", Unwrap(bp))]
               ELSE CASE t = "Step" -> [vm |-> v, trap |-> NoTrap]
                      [] t = "StepOver" ->
                             IF Len(v.function_stack) <= d
                             THEN [vm |-> v, trap |-> NoTrap]
                             ELSE RunToDepth(v, reg, d)
                      [] t = "StepOut" ->
                             IF Len(v.function_stack) <= d - 1
                             THEN [vm |-> v, trap |-> NoTrap]
                             ELSE RunToDepth(v, reg, d - 1)
                      [] t \in {"Start", "Continue"} -> VM_continue_execution(v, reg)
    IN The({ dispatched([s EXCEPT !.vm = Some(x.vm)], F, t, OkOptTrap(x.trap)) :
             x \in {r} })

\* run_code(Start), lines 61-64: get_vm_mut().unwrap() after start()
set_dap_addr(s, reply) ==
    IF IsSome(s.vm) THEN Handling(s, "replying", reply)
    ELSE Handling(s, "panicked", NoReply)

\* load_module, lines 31-44
load_module(s, file_name) ==
    LET o == load_file(s, file_name) IN
    IF o.ret.tag = "Panic" THEN Handling(o.s, "panicked", NoReply)
    ELSE Handling(o.s, "replying",
                  IF o.ret.tag = "Ok" THEN Reply("Ok", "", << >>)
                  ELSE Reply("Nok", Display(o.ret.what), << >>))

\* the range of i32
I32Max == 2147483647
I32Min == -I32Max - 1

\* a + b on i32: the sum wrapped to 32 bits, and whether it left the range
i32_add(a, b) ==
    IF b > 0 /\ a > I32Max - b
    THEN [value |-> ((a - (I32Max - b)) - 1) + I32Min, overflow |-> TRUE]
    ELSE IF b < 0 /\ a < I32Min - b
    THEN [value |-> ((a - (I32Min - b)) + 1) + I32Max, overflow |-> TRUE]
    ELSE [value |-> a + b, overflow |-> FALSE]

\* get_local, lines 91-137: the frame at function_stack.len() + func_level.
\* The sum is an i32 addition: a build with overflow checks panics when it
\* leaves the range, a build without them wraps it; cast to usize a negative
\* sum is above every length
get_local(s, func_level, overflow_checks) ==
    IF get_vm_mut(s) # ""
    THEN Handling(s, "replying", Reply("Nok", Display(get_vm_mut(s)), << >>))
    ELSE LET v     == Unwrap(s.vm)
             fs    == v.function_stack
             sum   == i32_add(Len(fs), func_level)
             index == sum.value
         IN IF sum.overflow /\ overflow_checks
            THEN Handling(s, "panicked", NoReply)
            ELSE IF index < 0 \/ index >= Len(fs)
            THEN Handling(s, "replying",
                     Reply("Nok", "index should be negative and less than call stack depth",
                           << >>))
            ELSE IF func_level # -1 /\ index + 2 > Len(fs)
            THEN Handling(s, "panicked", NoReply)
            ELSE Handling(s, "replying",
                     Reply("Ok", "",
                           << IF func_level = -1 THEN v.ip.func_index
                              ELSE fs[index + 2].ret_addr.func_index,
                              fs[index + 1].locals >>))

\* get_global, lines 139-163
get_global(s) ==
    LET o == globals(s) IN
    Handling(o.s, "replying",
             IF o.ret.tag = "Ok" THEN Reply("Ok", "", o.ret.n)
             ELSE Reply("Nok", Display(o.ret.what), << >>))

\* get_value_stack, lines 165-191
get_value_stack(s) ==
    Handling(s, "replying",
             IF IsSome(s.vm) THEN Reply("Ok", "", Unwrap(s.vm).value_stack)
             ELSE Reply("Nok", "vm does not exist", << >>))

\* get_call_stack, lines 193-229
get_call_stack(s) ==
    LET o == backtrace(s) IN
    Handling(o.s, "replying",
             IF o.ret.tag = "Ok" THEN Reply("Ok", "", o.ret.n)
             ELSE Reply("Nok", Display(o.ret.what), << >>))

\* add_breakpoint, lines 231-257: the request names a code position
rpc_add_breakpoint(s, code_position) ==
    LET o == add_breakpoint(s, Code(code_position.func_index, code_position.instr_index))
    IN Handling(o.s, "replying",
                IF o.ret.tag = "Ok" THEN Reply("Ok", "", << o.ret.n >>)
                ELSE Reply("Nok", Display(o.ret.what), << >>))

\* delete_breakpoint, lines 259-284
rpc_delete_breakpoint(s, index) ==
    LET o == delete_breakpoint(s, index) IN
    Handling(o.s, "replying",
             IF o.ret.tag = "Err" THEN Reply("Nok", Display(o.ret.what), << >>)
             ELSE IF o.ret.what = "true" THEN Reply("Ok", "", << >>)
             ELSE Reply("Nok", "breakpoint not exist", << index >>))

\* a request: the rpc and its argument, which is a text (file_name,
\* run_code_type), a number (func_level, breakpoint_index) or a code position
Request(rpc, arg) == [arg |-> arg, rpc |-> rpc]
Text(t) == [x |-> 0, y |-> 0, text |-> t]
Number(n) == [x |-> n, y |-> 0, text |-> ""]
Position(f, i) == [x |-> f, y |-> i, text |-> ""]

\* the handler of a request on the locked session, up to its reply or to the
\* first point it waits at
serve(s, F, overflow_checks, req) ==
    CASE req.rpc = "load_module" -> load_module(s, req.arg.text)
      [] req.rpc = "run_code" -> run_code(s, F, req.arg.text)
      [] req.rpc = "get_local" -> get_local(s, req.arg.x, overflow_checks)
      [] req.rpc = "get_global" -> get_global(s)
      [] req.rpc = "get_value_stack" -> get_value_stack(s)
      [] req.rpc = "get_call_stack" -> get_call_stack(s)
      [] req.rpc = "add_breakpoint" ->
             rpc_add_breakpoint(s, CodePosition(req.arg.x, req.arg.y))
      [] OTHER -> rpc_delete_breakpoint(s, req.arg.x)

\* the call depth a run_code request begins at
DepthOf(s) == IF IsSome(s.vm) THEN Len(Unwrap(s.vm).function_stack) ELSE 0

\* the next step of a handler that has not replied yet; answers are what
\* comes back from the remote side, in order
proceed(h, F, req, d, answers) ==
    CASE h.pc = "bridge" -> responded(h.s, req.arg.text, answers[1])
      [] h.pc = "resume" -> resumed(h.s, F, req.arg.text, d)
      [] h.pc = "started" -> set_dap_addr(h.s, h.reply)
      [] OTHER -> h

\* a request handled from the session s with nothing else running
RECURSIVE Finish(_, _, _, _, _)
Finish(h, F, req, d, answers) ==
    IF h.pc \in {"replying", "panicked"} THEN h
    ELSE IF h.pc = "bridge" /\ answers = << >> THEN h
    ELSE Finish(proceed(h, F, req, d, answers), F, req, d,
                IF h.pc = "bridge" THEN Tail(answers) ELSE answers)

Serial(s, F, overflow_checks, req, answers) ==
    Finish(serve(s, F, overflow_checks, req), F, req, DepthOf(s), answers)

-----------------------------------------------------------------------------
(* Integer (wasm/value.rs).  An integer of a Rust type is the integer it   *)
(* denotes; the minimum of i64 and of i128 lies below the integers the     *)
(* model can hold.                                                         *)

\* the types impl_integer! is instantiated for
IntegerTypes == {"i16", "i32", "u32", "i64", "u64", "i128"}

Signed(t) == t \in {"i8", "i16", "i32", "i64", "i128"}

\* a = $type::MIN
is_min(t, a) ==
    CASE t = "i16" -> a = -32768
      [] t = "i32" -> a = -2147483647 - 1
      [] t \in {"u32", "u64"} -> a = 0
      [] OTHER -> FALSE

\* the operator / of Rust on integers: the quotient rounded towards zero,
\* computed within the integers of the model (b # 0, and a / b is one of them)
TruncDiv(a, b) ==
    CASE b = 1 -> a
      [] b = -1 -> -a
      [] b = -2147483647 - 1 -> IF a = b THEN 1 ELSE 0
      [] OTHER ->
            LET q     == a \div b
                exact == a % (IF b > 0 THEN b ELSE -b) = 0
            IN IF exact \/ ((a < 0) = (b < 0)) THEN q ELSE q + 1

\* $type::wrapping_rem
wrapping_rem(t, a, b) ==
    IF Signed(t) /\ is_min(t, a) /\ b = -1 THEN 0
    ELSE a - b * TruncDiv(a, b)

\* $type::overflowing_div
overflowing_div(t, a, b) ==
    IF Signed(t) /\ is_min(t, a) /\ b = -1
    THEN [result |-> a, is_overflow |-> TRUE]
    ELSE [result |-> TruncDiv(a, b), is_overflow |-> FALSE]

\* Integer::rem
Integer_rem(t, a, b) ==
    IF b = 0 THEN Err("DivisionByZero")
    ELSE Ok("value", wrapping_rem(t, a, b))

\* div that takes the wrapped quotient whatever overflowing_div reports
Integer_div_wrapping(t, a, b) ==
    IF b = 0 THEN Err("DivisionByZero")
    ELSE Ok("value", overflowing_div(t, a, b).result)

\* Integer::div
Integer_div(t, a, b) ==
    IF b = 0 THEN Err("DivisionByZero")
    ELSE LET r == overflowing_div(t, a, b) IN
         IF r.is_overflow THEN Err("SignedIntegerOverflow")
         ELSE Ok("value", r.result)

-----------------------------------------------------------------------------
(* LittleEndianConvert (wasm/value.rs).  Here a value of a numeric type is *)
(* its bit pattern: the sequence of its bits, the least significant first; *)
(* a buffer is a sequence of bytes 0..255.                                 *)

\* the types that implement LittleEndianConvert
LittleEndianTypes ==
    {"i8", "u8", "i16", "u16", "i32", "u32", "i64", "u64", "f32", "f64", "F32", "F64"}

Floats == {"f32", "f64", "F32", "F64"}

\* core::mem::size_of::<$t>()
size_of(t) ==
    CASE t \in {"i8", "u8"} -> 1
      [] t \in {"i16", "u16"} -> 2
      [] t \in {"i32", "u32", "f32", "F32"} -> 4
      [] OTHER -> 8

\* $repr: the integer type that holds the bits of a float type
repr(t) == IF size_of(t) = 4 THEN "u32" ELSE "u64"

\* F32::to_bits, F64::to_bits and F32::from_bits, F64::from_bits: the wrapper
\* holds the bits of the float as they are
F32_to_bits(v) == v
F32_from_bits(b) == b

\* From<f32> for F32, From<f64> for F64 and the conversions back
F32_from_float(x) == F32_from_bits(x)
F32_to_float(v) == F32_to_bits(v)

\* $t::to_bits and $t::from_bits of the four float types
to_bits(t, v) == IF t \in {"F32", "F64"} THEN F32_to_bits(v) ELSE v
from_bits(t, b) == IF t \in {"F32", "F64"} THEN F32_from_bits(b) ELSE b

\* the u8 made of bits 8k..8k+7 of a bit pattern
ByteOf(bits, k) ==
    bits[8 * k + 1] + 2 * bits[8 * k + 2] + 4 * bits[8 * k + 3] + 8 * bits[8 * k + 4]
    + 16 * bits[8 * k + 5] + 32 * bits[8 * k + 6] + 64 * bits[8 * k + 7]
    + 128 * bits[8 * k + 8]

\* bit j of a u8
BitOf(byte, j) == (byte \div (2 ^ j)) % 2

\* $t::to_le_bytes
to_le_bytes(bits) == [k \in 1..(Len(bits) \div 8) |-> ByteOf(bits, k - 1)]

\* $t::from_le_bytes
from_le_bytes(buf) ==
    [i \in 1..(8 * Len(buf)) |-> BitOf(buf[((i - 1) \div 8) + 1], (i - 1) % 8)]

\* to_little_endian of the integer types: the buffer after the call
int_to_little_endian(t, v, buffer) ==
    IF size_of(t) = 1
    THEN IF Len(buffer) = 0 THEN Panicked
         ELSE Returned([buffer EXCEPT ![1] = ByteOf(v, 0)])
    ELSE IF Len(buffer) # size_of(t) THEN Panicked
         ELSE Returned(to_le_bytes(v))

\* from_little_endian of the integer types
int_from_little_endian(t, buffer) ==
    IF size_of(t) = 1
    THEN IF Len(buffer) = 0 THEN Panicked
         ELSE Returned([j \in 1..8 |-> BitOf(buffer[1], j - 1)])
    ELSE IF Len(buffer) < size_of(t) THEN Panicked
         ELSE Returned(from_le_bytes(SubSeq(buffer, 1, size_of(t))))

\* to_little_endian that writes the most significant byte first
to_little_endian_big(t, v, buffer) ==
    IF size_of(t) = 1 THEN int_to_little_endian(t, to_bits(t, v), buffer)
    ELSE IF Len(buffer) # size_of(t) THEN Panicked
         ELSE Returned([k \in 1..size_of(t) |-> ByteOf(v, size_of(t) - k)])

\* LittleEndianConvert::to_little_endian
to_little_endian(t, v, buffer) ==
    IF t \in Floats THEN int_to_little_endian(repr(t), to_bits(t, v), buffer)
    ELSE int_to_little_endian(t, v, buffer)

\* LittleEndianConvert::from_little_endian
from_little_endian(t, buffer) ==
    IF t \in Floats
    THEN LET r == int_from_little_endian(repr(t), buffer) IN
         IF r.panic THEN Panicked ELSE Returned(from_bits(t, r.out))
    ELSE int_from_little_endian(t, buffer)

-----------------------------------------------------------------------------
(* Value and Number (wasm/value.rs): a Value is its variant and the bits   *)
(* it holds.                                                               *)

\* the types that implement Number
NumberTypes == {"u32", "i32", "u64", "i64", "f32", "f64", "F32", "F64"}

\* Value::I32(bits), Value::I64(bits), Value::F32(bits), Value::F64(bits)
Value(variant, bits) == [variant |-> variant, bits |-> bits]

\* Number::value_type
value_type(T) ==
    CASE T \in {"u32", "i32"} -> "I32"
      [] T \in {"u64", "i64"} -> "I64"
      [] T \in {"f32", "F32"} -> "F32"
      [] OTHER -> "F64"

\* the cast `as` between integer types: the low bits, extended by the sign bit
\* of a signed source and by zero of an unsigned one
as_int(bits, signed, width) ==
    [i \in 1..width |-> IF i <= Len(bits) THEN bits[i]
                        ELSE IF signed THEN bits[Len(bits)] ELSE 0]

\* From<T> for Value
Value_from(T, x) ==
    CASE T = "i32" -> Value("I32", x)
      [] T = "u32" -> Value("I32", as_int(x, FALSE, 32))
      [] T = "i64" -> Value("I64", x)
      [] T = "u64" -> Value("I64", as_int(x, FALSE, 64))
      [] T = "f32" -> Value("F32", F32_from_float(x))
      [] T = "f64" -> Value("F64", F32_from_float(x))
      [] T = "F32" -> Value("F32", x)
      [] OTHER -> Value("F64", x)

\* val.into() of the float types: the F32 or F64 held, as T
into(T, v) == IF T \in {"f32", "f64"} THEN F32_to_float(v) ELSE v

\* from_value of the integer types that casts whatever integer the Value holds
from_value_coercing(T, val) ==
    IF T \in Floats
    THEN IF val.variant = value_type(T) THEN Some(into(T, val.bits)) ELSE None
    ELSE IF val.variant \in {"I32", "I64"}
         THEN Some(as_int(val.bits, TRUE, 8 * size_of(T)))
         ELSE None

\* Number::from_value
from_value(T, val) ==
    IF val.variant # value_type(T) THEN None
    ELSE IF T \in Floats THEN Some(into(T, val.bits))
         ELSE Some(as_int(val.bits, TRUE, 8 * size_of(T)))

\* Value::to::<T>
Value_to(val, T) == from_value(T, val)

-----------------------------------------------------------------------------
(* The state machine: a front end calls the session's operations one at a  *)
(* time.                                                                   *)

\* the session as a value
Sess == [file |-> file, vm |-> vm, info |-> info, heap |-> heap]

\* the arguments the front end is modelled to pass
BpInputs == {Code(0, 1), Code(1, 1), Code(2, 0), Global(0), Global(2), Memory(0, 1)}
IndexInputs == 0..MaxBreakpoints
CallInputs == {0, 1}

NoArg == << >>

\* what the session holds: a File?, the VM's call depth (-1: no VM), the number of breakpoints
Holds ==
    [ file  |-> IsSome(file),
      depth |-> IF IsSome(vm) THEN Len(Unwrap(vm).function_stack) ELSE -1,
      bps   |-> IF IsSome(file) THEN Len(breakpoints_and_unlock(Sess).entries) ELSE 0 ]

\* WasmDebuggerImpl::new: a session of Debugger<F> behind an unlocked Mutex,
\* in a build with or without overflow checks; holder 0 is no holder
WasmDebuggerImpl_new(F, overflow_checks) ==
    [overflow_checks |-> overflow_checks, handler |-> F, holder |-> 0,
     poisoned |-> FALSE, requests |-> 0]

\* no request is in flight
NoCallers == << >>

Init ==
    /\ file = Debugger_new.file
    /\ vm = Debugger_new.vm
    /\ info = Debugger_new.info
    /\ heap = Debugger_new.heap
    /\ last = [op |-> "new", arg |-> NoArg, ret |-> OkUnit, was |-> Holds]
    /\ issued = {}
    /\ srv = WasmDebuggerImpl_new("default", FALSE)
    /\ callers = NoCallers

\* the session becomes o.s and the operation is recorded; a call that
\* panicked has not returned, and no operation follows it
Becomes(o, op, arg) ==
    /\ last.ret.tag # "Panic"
    /\ file' = o.s.file
    /\ vm' = o.s.vm
    /\ info' = o.s.info
    /\ heap' = o.s.heap
    /\ last' = [op |-> op, arg |-> arg, ret |-> o.ret, was |-> Holds]
    /\ UNCHANGED <<srv, callers>>

Load ==
    \E path \in Paths :
        LET o == load_file(Sess, path) IN
        /\ Becomes(o, "load_file", <<path>>)
        /\ issued' = IF o.ret.tag = "Ok" THEN {} ELSE issued

AddBreakpoint ==
    \E bp \in BpInputs :
        LET o == add_breakpoint(Sess, bp) IN
        /\ IsSome(file) => breakpoints_and_unlock(Sess).next_index < MaxBreakpoints
        /\ Becomes(o, "add_breakpoint", <<bp>>)
        /\ issued' = IF o.ret.tag = "Ok" THEN issued \cup {o.ret.n} ELSE issued

DeleteBreakpoint ==
    \E index \in IndexInputs :
        /\ Becomes(delete_breakpoint(Sess, index), "delete_breakpoint", <<index>>)
        /\ UNCHANGED issued

ClearBreakpoints ==
    /\ Becomes(clear_breakpoints(Sess), "clear_breakpoints", NoArg)
    /\ UNCHANGED issued

Run ==
    /\ Becomes(run(Sess), "run", NoArg)
    /\ UNCHANGED issued

Start ==
    /\ Becomes(start(Sess), "start", NoArg)
    /\ UNCHANGED issued

\* the function called exists, has a body, and the call depth stays within the bound
CanCall(index) ==
    /\ IsSome(file)
    /\ LET m == ModuleOf(Unwrap(file).module) IN
           /\ index + 1 \in DOMAIN m.funcs
           /\ index \notin m.imported
    /\ IsSome(vm) => Len(Unwrap(vm).function_stack) < MaxDepth

Call ==
    \E index \in CallInputs :
        /\ IsSome(file) => CanCall(index)
        /\ Becomes(call(Sess, index, << >>), "call", NoArg)
        /\ UNCHANGED issued

ResetVm ==
    /\ Becomes(reset_vm(Sess), "reset_vm", NoArg)
    /\ UNCHANGED issued

Continue ==
    /\ Becomes(continue_execution(Sess), "continue_execution", NoArg)
    /\ UNCHANGED issued

Step ==
    /\ Becomes(execute_step(Sess), "execute_step", NoArg)
    /\ UNCHANGED issued

StepOver ==
    /\ Becomes(execute_step_over(Sess), "execute_step_over", NoArg)
    /\ UNCHANGED issued

StepOut ==
    /\ Becomes(execute_step_out(Sess), "execute_step_out", NoArg)
    /\ UNCHANGED issued

\* an inspection query: its answer goes to the front end, the session is
\* what the query leaves
Inspect ==
    \E q \in Queries :
        LET o == Query(Sess, q) IN
        /\ last.ret.tag # "Panic"
        /\ o.ret.tag \in {"Ok", "Err"}
        /\ file' = o.s.file
        /\ vm' = o.s.vm
        /\ info' = o.s.info
        /\ heap' = o.s.heap
        /\ UNCHANGED <<last, issued, srv, callers>>

Next ==
    \/ Load
    \/ AddBreakpoint
    \/ DeleteBreakpoint
    \/ ClearBreakpoints
    \/ Run
    \/ Start
    \/ Call
    \/ ResetVm
    \/ Continue
    \/ Step
    \/ StepOver
    \/ StepOut
    \/ Inspect

Spec == Init /\ [][Next]_vars

-----------------------------------------------------------------------------
(* The value layer applied to inputs: the functions are pure, each is      *)
(* applied once to an input, the session stays as Debugger::new left it.   *)

\* the integers of type t the functions are applied to
IntegerInputs(t) ==
    CASE t = "i16" -> {-32768, -32767, -7, -2, -1, 0, 1, 2, 7, 32767}
      [] t = "i32" -> {-2147483647 - 1, -2147483647, -7, -2, -1, 0, 1, 2, 7, 2147483647}
      [] t \in {"u32", "u64"} -> {0, 1, 2, 7, 65535, 2147483647}
      [] OTHER -> {-2147483647, -32768, -7, -2, -1, 0, 1, 2, 7, 2147483647}

\* the function is applied to an input and recorded with its result; the
\* result of to_little_endian goes with what from_little_endian reads back,
\* the Value built by From with what Value::to answers
Applied(op, arg, ret) ==
    /\ last' = [op |-> op, arg |-> arg, ret |-> ret, was |-> Holds]
    /\ UNCHANGED <<file, vm, info, heap, issued, srv, callers>>

Div ==
    /\ last.op = "new"
    /\ \E t \in IntegerTypes : \E a \in IntegerInputs(t), b \in IntegerInputs(t) :
           Applied("div", <<t, a, b>>, Integer_div(t, a, b))

Rem ==
    /\ last.op = "new"
    /\ \E t \in IntegerTypes : \E a \in IntegerInputs(t), b \in IntegerInputs(t) :
           Applied("rem", <<t, a, b>>, Integer_rem(t, a, b))

\* bit patterns of w bits: all zero, all one, one bit set, byte k holding k + 1
Zeros(w) == [i \in 1..w |-> 0]
Ones(w) == [i \in 1..w |-> 1]
OneHot(w, p) == [i \in 1..w |-> IF i = p THEN 1 ELSE 0]
Counting(w) == from_le_bytes([k \in 1..(w \div 8) |-> k])

\* a NaN of a float of w bits: the exponent all ones, the given mantissa bits
\* and sign
NaN(w, mantissa, sign) ==
    LET m == IF w = 32 THEN 23 ELSE 52 IN
    [i \in 1..w |-> IF i = w THEN sign
                    ELSE IF i > m THEN 1
                    ELSE IF i \in mantissa THEN 1 ELSE 0]

\* the values of type t the functions are applied to
Patterns(t) ==
    LET w == 8 * size_of(t) IN
    {Zeros(w), Ones(w), Counting(w)} \cup {OneHot(w, p) : p \in 1..w} \cup
    (IF t \in Floats
     THEN {NaN(w, {1}, 0), NaN(w, {1, w - 9}, 1), NaN(w, {2, 9, 17}, 0)}
     ELSE {})

\* the lengths of the buffers handed to to_little_endian
BufferLens(t) == {size_of(t) - 1, size_of(t), size_of(t) + 1}

Encode ==
    /\ last.op = "new"
    /\ \E t \in LittleEndianTypes : \E v \in Patterns(t), len \in BufferLens(t) :
           LET e == to_little_endian(t, v, Zeros(len))
               d == IF e.panic THEN Panicked ELSE from_little_endian(t, e.out)
           IN Applied("little_endian", <<t, v, len>>, Ok(e, d))

Convert ==
    /\ last.op = "new"
    /\ \E S \in NumberTypes, T \in NumberTypes : \E x \in Patterns(S) :
           LET val == Value_from(S, x) IN
           Applied("to", <<S, x, T>>, Ok(val, Value_to(val, T)))

NextValue ==
    \/ Div
    \/ Rem
    \/ Encode
    \/ Convert

SpecValue == Init /\ [][NextValue]_vars

-----------------------------------------------------------------------------
(* The front end serving concurrent requests.  Every handler begins with   *)
(* self.dbg.lock().unwrap() and holds the guard until it returns.          *)

Callers == 1..NumCallers

\* a handler that is not running
Idle ==
    [ d |-> 0, pc |-> "idle", reply |-> NoReply, req |-> Request("", Number(0)),
      answers |-> << >>, snap |-> Debugger_new ]

\* Mutex::lock().unwrap() by caller c: blocked while the lock is held; on a
\* poisoned lock unwrap panics
mutex_lock_shared(m, c) == [m |-> [m EXCEPT !.holder = c], got |-> "locked"]

mutex_lock(m, c) ==
    IF m.holder # 0 THEN [m |-> m, got |-> "blocked"]
    ELSE IF m.poisoned THEN [m |-> m, got |-> "panicked"]
    ELSE [m |-> [m EXCEPT !.holder = c], got |-> "locked"]

\* the MutexGuard is dropped; dropped while panicking it poisons the lock
mutex_unlock(m, panicking) ==
    [m EXCEPT !.holder = 0, !.poisoned = @ \/ panicking]

\* the guard given up for the time the handler waits for the remote side
guard_released_at_bridge(m, pc) ==
    IF pc \in {"panicked", "bridge"} THEN mutex_unlock(m, pc = "panicked") ELSE m

\* the guard after a step of its handler: it lives until the handler
\* returns, and a panic drops it while unwinding
guard(m, pc) ==
    IF pc = "panicked" THEN mutex_unlock(m, TRUE) ELSE m

\* what the remote side is modelled to send back
ResponseGlobals ==
    {<< >>, << Value_from_value(4) >>, << Value_from_value(4), Value_from_value(5) >>}
ResponseMemory == {<< >>, << 6 >>, << 6, 7 >>}
Answers ==
    {Failure(k) : k \in BridgeFailures} \cup
    {Response(rv, gs, mem) : rv \in {None, Some(Value_from_value(9))},
                             gs \in ResponseGlobals, mem \in ResponseMemory} \cup
    {Response(Some(Unset), << >>, << >>),
     Response(Some(Unset), << Value_from_value(4) >>, << 6 >>),
     Response(None, << Unset >>, << 6 >>)}

ServerPaths == {"b.wasm", "e.wasm", "bad.wasm"}

\* the run_code_type of a request: the five types, and 7, which names none
RunCodeInputs == RunCodeTypes \cup {"7"}

InitServer ==
    /\ file = Debugger_new.file
    /\ vm = Debugger_new.vm
    /\ info = Debugger_new.info
    /\ heap = Debugger_new.heap
    /\ last = [op |-> "new", arg |-> NoArg, ret |-> OkUnit, was |-> Holds]
    /\ issued = {}
    /\ \E F \in Handlers, overflow_checks \in BOOLEAN :
           srv = WasmDebuggerImpl_new(F, overflow_checks)
    /\ callers = [c \in Callers |-> Idle]

\* caller c's handler has taken a step that left h
Stepped(c, h, answers) ==
    /\ file' = h.s.file
    /\ vm' = h.s.vm
    /\ info' = h.s.info
    /\ heap' = h.s.heap
    /\ srv' = guard(srv, h.pc)
    /\ callers' = [callers EXCEPT ![c].pc = h.pc, ![c].reply = h.reply,
                                  ![c].answers = answers]

Arrives(c, req) ==
    /\ srv' = [srv EXCEPT !.requests = @ + 1]
    /\ callers' = [callers EXCEPT ![c] = [Idle EXCEPT !.pc = "waiting", !.req = req]]
    /\ UNCHANGED <<file, vm, info, heap, last, issued>>

\* a request arrives and its handler starts
Receive ==
    \E c \in Callers :
        /\ callers[c].pc = "idle"
        /\ srv.requests < MaxRequests
        /\ \/ \E path \in ServerPaths :
                  Arrives(c, Request("load_module", Text(path)))
           \/ \E t \in RunCodeInputs : Arrives(c, Request("run_code", Text(t)))
           \/ \E rpc \in {"get_global", "get_value_stack", "get_call_stack"} :
                  Arrives(c, Request(rpc, Number(0)))
           \/ \E func_level \in {-1, 0, I32Max} :
                  Arrives(c, Request("get_local", Number(func_level)))
           \/ \E pos \in {Position(1, 3), Position(0, 1)} :
                  Arrives(c, Request("add_breakpoint", pos))
           \/ Arrives(c, Request("delete_breakpoint", Number(0)))

\* self.dbg.lock().unwrap()
Lock ==
    \E c \in Callers :
        LET l == mutex_lock(srv, c) IN
        /\ callers[c].pc = "waiting"
        /\ l.got # "blocked"
        /\ srv' = l.m
        /\ callers' = [callers EXCEPT ![c].pc = l.got, ![c].snap = Sess,
                                      ![c].d = DepthOf(Sess)]
        /\ UNCHANGED <<file, vm, info, heap, last, issued>>

\* the handler runs on the session up to its reply or to the remote call
Serve ==
    \E c \in Callers :
        /\ callers[c].pc = "locked"
        /\ \E h \in {serve(Sess, srv.handler, srv.overflow_checks, callers[c].req)} :
               /\ Stepped(c, h, callers[c].answers)
               /\ issued' =
                      IF callers[c].req.rpc = "load_module" /\ h.reply.status = "Ok"
                      THEN {}
                      ELSE IF callers[c].req.rpc = "add_breakpoint" /\ h.reply.status = "Ok"
                      THEN issued \cup {h.reply.payload[1]}
                      ELSE issued
        /\ UNCHANGED last

\* what the handler's call returned: VMResult<()> or a panic
HandlerResult(r) ==
    IF r.panic THEN Panic("panicked")
    ELSE OkOptTrap(r.trap)

\* the remote side answers, or fails to, and handle_import_function ends
BridgeRespond ==
    \E c \in Callers : \E answer \in Answers :
        /\ callers[c].pc = "bridge"
        /\ \E h \in {responded(Sess, callers[c].req.arg.text, answer)} :
               Stepped(c, h, Append(callers[c].answers, answer))
        /\ last' = [ op  |-> "handle_import_function",
                     arg |-> << answer >>,
                     ret |-> HandlerResult(
                                 grpc_handle_import_function(Unwrap(vm), answer)),
                     was |-> Holds ]
        /\ UNCHANGED issued

\* the dispatch loop goes on after the imported function
Resume ==
    \E c \in Callers :
        /\ callers[c].pc = "resume"
        /\ \E h \in {resumed(Sess, srv.handler, callers[c].req.arg.text, callers[c].d)} :
               Stepped(c, h, callers[c].answers)
        /\ UNCHANGED <<last, issued>>

\* run_code(Start) reaches for the VM it has started
SetDapAddr ==
    \E c \in Callers :
        /\ callers[c].pc = "started"
        /\ Stepped(c, set_dap_addr(Sess, callers[c].reply), callers[c].answers)
        /\ UNCHANGED <<last, issued>>

\* the handler returns its reply and the guard is dropped
Return ==
    \E c \in Callers :
        /\ callers[c].pc = "replying"
        /\ srv' = mutex_unlock(srv, FALSE)
        /\ callers' = [callers EXCEPT ![c] = Idle]
        /\ last' = [ op  |-> callers[c].req.rpc,
                     arg |-> << callers[c].req.arg >>,
                     ret |-> callers[c].reply,
                     was |-> Holds ]
        /\ UNCHANGED <<file, vm, info, heap, issued>>

NextServer ==
    \/ Receive
    \/ Lock
    \/ Serve
    \/ BridgeRespond
    \/ Resume
    \/ SetDapAddr
    \/ Return

SpecServer == InitServer /\ [][NextServer]_vars

\* Serve can take a step exactly when some caller holds the guard and has
\* not yet run its handler
ServeEnabled == \E c \in Callers : callers[c].pc = "locked"

\* every handler that can take a step takes it, and the remote side answers;
\* the condition on Serve is WF_vars(Serve) with ENABLED <<Serve>>_vars
\* written as ServeEnabled
SpecServerFair ==
    /\ SpecServer
    /\ WF_vars(Lock)
    /\ []<>(~ServeEnabled) \/ []<><<Serve>>_vars
    /\ WF_vars(BridgeRespond)
    /\ WF_vars(Resume)
    /\ WF_vars(SetDapAddr)
    /\ WF_vars(Return)

-----------------------------------------------------------------------------------------------------------------------------------------------------
(* The locals query of the front end on the sessions that its own requests *)
(* build: a third specification over the same variables, in which the     *)
(* requests are handled one after the other.                               *)

\* the depths asked for: around the frames of a stack of up to three frames,
\* and at both ends of i32
LocalInputs == {-4, -3, -2, -1, 0, 1, I32Max - 1, I32Max, I32Min}

\* what the remote side sends back to a run_code that calls an import
LocalAnswers ==
    {Failure("connect"),
     Response(Some(Value_from_value(9)), << Value_from_value(4) >>, << 6 >>)}

InitLocals ==
    /\ file = Debugger_new.file
    /\ vm = Debugger_new.vm
    /\ info = Debugger_new.info
    /\ heap = Debugger_new.heap
    /\ last = [op |-> "new", arg |-> NoArg, ret |-> OkUnit, was |-> Holds]
    /\ issued = {}
    /\ \E overflow_checks \in BOOLEAN :
           srv = WasmDebuggerImpl_new("grpc", overflow_checks)
    /\ callers = [c \in {1} |-> Idle]

\* lock().unwrap() in front of a handler, which waits while the lock is
\* held: on a poisoned lock it panics and the handler h does not run
Locked(l, h) ==
    IF l.got = "panicked" THEN Handling(Sess, "poisoned", NoReply) ELSE h

\* the handler of req, holding the guard taken in l, ran to h: to its reply
\* or a panic, where the guard is dropped, or into handle_import_function,
\* where it waits for the remote side with the guard held
Ran(req, l, h) ==
    /\ h.pc \in {"replying", "panicked", "poisoned", "bridge"}
    /\ srv' = IF h.pc = "poisoned" THEN srv
              ELSE IF h.pc = "bridge" THEN l.m
              ELSE mutex_unlock(l.m, h.pc = "panicked")
    /\ callers' =
           [callers EXCEPT ![1] =
               IF h.pc = "bridge"
               THEN [Idle EXCEPT !.pc = "bridge", !.req = req,
                                 !.d = IF callers[1].pc = "bridge"
                                       THEN callers[1].d ELSE DepthOf(Sess)]
               ELSE Idle]
    /\ last' = [ op  |-> req.rpc,
                 arg |-> << req.arg.x, req.arg.y, req.arg.text >>,
                 ret |-> [pc |-> h.pc, reply |-> h.reply],
                 was |-> Holds ]
    /\ file' = h.s.file
    /\ vm' = h.s.vm
    /\ info' = h.s.info
    /\ heap' = h.s.heap
    /\ UNCHANGED issued

LoadModule ==
    \E path \in Paths :
        \E l \in {mutex_lock(srv, 1)} :
            /\ l.got # "blocked"
            /\ \E h \in {Locked(l, load_module(Sess, path))} :
                   Ran(Request("load_module", Text(path)), l, h)

AddBreakpointAt ==
    \E pos \in {Position(0, 1), Position(1, 1), Position(2, 0)} :
        \E l \in {mutex_lock(srv, 1)} :
            /\ l.got # "blocked"
            /\ IsSome(file) => breakpoints_and_unlock(Sess).next_index < MaxBreakpoints
            /\ \E h \in {Locked(l, rpc_add_breakpoint(Sess, CodePosition(pos.x, pos.y)))} :
                   Ran(Request("add_breakpoint", pos), l, h)

\* run_code from the lock to its reply, or to the remote call of an imported
\* function, where the handler blocks in join() with the guard held and the
\* VM inside the call
RunCode ==
    \E t \in {"Start", "Step", "7"} :
        \E l \in {mutex_lock(srv, 1)} :
            /\ l.got # "blocked"
            /\ \E h0 \in {Locked(l, run_code(Sess, srv.handler, t))} :
               \E h \in {IF h0.pc = "started"
                          THEN set_dap_addr(h0.s, h0.reply) ELSE h0} :
                   Ran(Request("run_code", Text(t)), l, h)

\* the remote side answers, or the call fails, and the waiting run_code goes
\* on: write back, the rest of the dispatch, the access that follows start()
\* and the reply, or the next remote call
RemoteAnswers ==
    /\ callers[1].pc = "bridge"
    /\ \E answer \in LocalAnswers :
        \E t \in {callers[1].req.arg.text} :
        \E h1 \in {responded(Sess, t, answer)} :
        \E h2 \in {IF h1.pc = "resume"
                    THEN resumed(h1.s, srv.handler, t, callers[1].d) ELSE h1} :
        \E h \in {IF h2.pc = "started" THEN set_dap_addr(h2.s, h2.reply) ELSE h2} :
            Ran(callers[1].req, [m |-> srv, got |-> "locked"], h)

GetLocal ==
    \E func_level \in LocalInputs :
        \E l \in {mutex_lock(srv, 1)} :
            /\ l.got # "blocked"
            /\ \E h \in {Locked(l, get_local(Sess, func_level, srv.overflow_checks))} :
                   Ran(Request("get_local", Number(func_level)), l, h)

NextLocals ==
    \/ LoadModule
    \/ AddBreakpointAt
    \/ RunCode
    \/ RemoteAnswers
    \/ GetLocal

SpecLocals == InitLocals /\ [][NextLocals]_vars

-----------------------------------------------------------------------------
(* Properties of the session.                                              *)

\* the session after the step
SessNext == [file |-> file', vm |-> vm', info |-> info', heap |-> heap']

\* the File's registry before and after the step
Reg == heap[Unwrap(file).breakpoints]
RegNext == heap'[Unwrap(file').breakpoints]

EntrySet(reg) == {reg.entries[k] : k \in DOMAIN reg.entries}

StepOps == {"execute_step", "execute_step_over", "execute_step_out", "continue_execution"}
VmOps == StepOps \cup {"start", "run", "call", "reset_vm"}

\* a VM can be constructed from the loaded File
Constructible ==
    IsSome(file) /\ IsSome(VM_new(Unwrap(file).module, Unwrap(file).breakpoints))

\* C1: a load_file that fails, the module being one that cannot be parsed,
\* returns the load error and leaves the File, the VM, the debug info and the
\* breakpoint registry exactly as they were.
C1_FailedLoadLeavesSession ==
    [][ (last'.op = "load_file" /\ last'.ret.tag # "Ok") =>
            /\ last'.ret = Err("LoadError")
            /\ SessNext = Sess ]_vars

\* C2: a successful load_file installs a new File for the path, leaves no VM,
\* and the new File's registry holds no breakpoint, whatever the previous
\* File's registry held.
C2_LoadInstallsEmptyFile ==
    [][ (last'.op = "load_file" /\ last'.ret.tag = "Ok") =>
            /\ IsSome(file')
            /\ Unwrap(file').file_path = last'.arg[1]
            /\ Unwrap(file').module.path = last'.arg[1]
            /\ info' = Some(DebugInfo_new(last'.arg[1]).out)
            /\ vm' = None
            /\ RegNext.entries = << >>
            /\ IsSome(file) => Unwrap(file').breakpoints # Unwrap(file).breakpoints
            /\ \A pos \in {CodePosition(f, i) : f \in 0..2, i \in 0..3} :
                   find_code(RegNext, pos) = None ]_vars

\* a File was loaded over a File that had a running VM and breakpoints
C2_Witness ==
    /\ last.op = "load_file"
    /\ last.ret = OkUnit
    /\ last.was.file /\ last.was.depth > 0 /\ last.was.bps > 0
    /\ vm = None

\* C3 as stated: with a File loaded (from which a VM can be built) and no VM,
\* start and every step variant and continue_execution create the VM and succeed.
C3_AllCreateLazily ==
    [][ (Constructible /\ vm = None /\ last'.op \in StepOps \cup {"start"}) =>
            (last'.ret.tag = "Ok" /\ IsSome(vm')) ]_vars

\* C3 amended: with a File loaded and no VM, start creates the VM, bound to the
\* File's module and registry (or fails with InitError, session unchanged, when
\* no VM can be built); the step variants and continue_execution never create a
\* VM: they fail with NoRunningInstance and leave the session unchanged.  start
\* fails with NoFileLoaded only when no File is loaded.
C3_StartCreatesStepsDoNot ==
    [][ /\ (IsSome(file) /\ vm = None /\ last'.op = "start") =>
               IF Constructible
               THEN /\ last'.ret.tag = "Ok"
                    /\ IsSome(vm')
                    /\ Unwrap(vm').module = Unwrap(file).module
                    /\ Unwrap(vm').breakpoints = Unwrap(file).breakpoints
                    /\ file' = file /\ RegNext = Reg
               ELSE last'.ret = Err("InitError") /\ SessNext = Sess
        /\ (vm = None /\ last'.op \in StepOps) =>
               (last'.ret = Err("NoRunningInstance") /\ SessNext = Sess)
        /\ (last'.op \in StepOps \cup {"start"} /\ last'.ret = Err("NoFileLoaded")) =>
               file = None ]_vars

\* start has created the VM of a session that held a File and no VM
C3_Witness ==
    /\ last.op = "start"
    /\ last.was.file /\ last.was.depth = -1
    /\ last.ret.tag = "Ok"
    /\ IsSome(vm)

\* C4: with no File loaded, start, run, call, add_breakpoint, delete_breakpoint
\* and clear_breakpoints fail with NoFileLoaded and leave the session as it was.
C4_NoFileLoaded ==
    [][ (file = None /\ last'.op \in {"start", "run", "call", "add_breakpoint",
                                       "delete_breakpoint", "clear_breakpoints"}) =>
            /\ last'.ret = Err("NoFileLoaded")
            /\ file' = None /\ vm' = None
            /\ SessNext = Sess ]_vars

\* clear_breakpoints was called on a session without a File
C4_Witness ==
    /\ last.op = "clear_breakpoints"
    /\ ~last.was.file
    /\ last.ret = Err("NoFileLoaded")
    /\ file = None /\ vm = None

\* C5: the VM after a successful start or run is the one the same operation
\* yields on the session without its previous VM: nothing of the previous VM's
\* stacks, globals or memory is carried over.
C5_StartReplacesVM ==
    [][ /\ (last'.op = "start" /\ last'.ret.tag = "Ok") =>
               /\ vm' = start([Sess EXCEPT !.vm = None]).s.vm
               /\ last'.ret = start([Sess EXCEPT !.vm = None]).ret
        /\ (last'.op = "run" /\ last'.ret.tag = "Ok") =>
               /\ vm' = run([Sess EXCEPT !.vm = None]).s.vm
               /\ last'.ret = run([Sess EXCEPT !.vm = None]).ret ]_vars

\* start has replaced a VM that was stopped inside a function
C5_Witness ==
    /\ last.op = "start"
    /\ last.was.depth > 0
    /\ last.ret.tag = "Ok"
    /\ IsSome(vm)

\* C6: start, run, call, reset_vm, the step variants and continue_execution
\* leave the File and every entry and the next index of its registry as they are.
C6_RegistrySurvivesVmOps ==
    [][ last'.op \in VmOps =>
            /\ file' = file
            /\ IsSome(file) => RegNext = Reg
            /\ file = None => heap' = heap ]_vars

\* the VM was reset while the registry held a breakpoint, which is still there
C6_Witness ==
    /\ last.op = "reset_vm"
    /\ last.was.depth > 0 /\ last.was.bps > 0
    /\ vm = None
    /\ Reg.entries # << >>

\* the position (f, i) exists in module m
PositionExists(m, f, i) ==
    /\ f < Len(m.funcs)
    /\ i < Len(m.funcs[f + 1])

\* C7: add_breakpoint rejects a Code breakpoint at a position the module does
\* not have with InvalidBreakpointPosition and a Global watchpoint with an index
\* >= the number of globals with InvalidWatchpointGlobal, the session being
\* unchanged; it accepts every Memory watchpoint.
C7_AddBreakpointValidates ==
    [][ (last'.op = "add_breakpoint" /\ IsSome(file)) =>
            LET bp == last'.arg[1]
                m  == ModuleOf(Unwrap(file).module)
            IN /\ (bp.kind = "Code" /\ ~PositionExists(m, bp.x, bp.y)) =>
                      (last'.ret = Err("InvalidBreakpointPosition") /\ SessNext = Sess)
               /\ (bp.kind = "Global" /\ bp.x >= m.nglobals) =>
                      (last'.ret = Err("InvalidWatchpointGlobal") /\ SessNext = Sess)
               /\ bp.kind = "Memory" =>
                      (last'.ret.tag = "Ok" /\ [index |-> last'.ret.n, bp |-> bp] \in EntrySet(RegNext))
               /\ last'.ret.tag = "Err" => SessNext = Sess ]_vars

\* a Global watchpoint was rejected while the registry held a breakpoint
C7_Witness ==
    /\ last.op = "add_breakpoint"
    /\ last.ret = Err("InvalidWatchpointGlobal")
    /\ IsSome(file)
    /\ Reg.entries # << >>

\* C8: after a rejected add_breakpoint every add_breakpoint returns what it
\* would have returned had the rejected call not been made.
C8_RejectedAddAllocatesNothing ==
    [][ (last'.op = "add_breakpoint" /\ IsSome(file) /\ last'.ret.tag = "Err") =>
            /\ RegNext.next_index = Reg.next_index
            /\ \A bp \in BpInputs :
                   add_breakpoint(SessNext, bp).ret = add_breakpoint(Sess, bp).ret ]_vars

\* a Code breakpoint was rejected after index 0 had been handed out
C8_Witness ==
    /\ last.op = "add_breakpoint"
    /\ last.ret = Err("InvalidBreakpointPosition")
    /\ IsSome(file)
    /\ issued = {0}
    /\ add_breakpoint(Sess, Memory(0, 1)).ret = OkIndex(1)

\* C9: during a File's lifetime every index add_breakpoint returns is greater
\* than every index it returned before; the registry's indices are distinct
\* and were all returned by add_breakpoint; an index keeps designating the
\* breakpoint it was returned for until that entry is deleted or cleared.
C9_IndicesNeverReused ==
    [][ IsSome(file') =>
            /\ Indices(RegNext) \subseteq issued'
            /\ Cardinality(Indices(RegNext)) = Len(RegNext.entries)
            /\ (last'.op = "add_breakpoint" /\ last'.ret.tag = "Ok") =>
                   /\ \A i \in issued : last'.ret.n > i
                   /\ [index |-> last'.ret.n, bp |-> last'.arg[1]] \in EntrySet(RegNext)
            /\ file' = file =>
                   \A e \in EntrySet(RegNext) :
                       e.index \in issued => e \in EntrySet(Reg) ]_vars

\* index 1 was returned after index 0 had been deleted or cleared
C9_Witness ==
    /\ last.op = "add_breakpoint"
    /\ last.ret = OkIndex(1)
    /\ issued = {0, 1}
    /\ Indices(Reg) = {1}

\* C10: with a File loaded, delete_breakpoint(i) returns Ok(true) exactly when
\* the registry holds an entry with index i and removes that entry only;
\* otherwise it returns Ok(false) and the registry is unchanged.
C10_DeleteBreakpoint ==
    [][ (last'.op = "delete_breakpoint" /\ IsSome(file)) =>
            LET i == last'.arg[1] IN
            /\ last'.ret = OkBool(i \in Indices(Reg))
            /\ EntrySet(RegNext) = {e \in EntrySet(Reg) : e.index # i}
            /\ RegNext.next_index = Reg.next_index
            /\ i \notin Indices(Reg) => SessNext = Sess
            /\ file' = file /\ vm' = vm /\ info' = info ]_vars

\* an index that had been returned and deleted was deleted again: Ok(false)
C10_Witness ==
    /\ last.op = "delete_breakpoint"
    /\ last.ret = OkBool(FALSE)
    /\ last.arg[1] \in issued
    /\ IsSome(file)
    /\ Reg.entries # << >>

\* the path of the loaded File
LoadedPath == Unwrap(file).file_path

\* C11: backtrace() on a VM whose function stack holds n >= 1 frames returns
\* exactly n positions, innermost first: element 0 is the current instruction
\* pointer and element k (1 <= k < n) is the return address stored in frame
\* n-k (frames counted from 0, the outermost).
C11_BacktraceInnermostFirst ==
    (IsSome(vm) /\ Len(Unwrap(vm).function_stack) >= 1) =>
        LET v  == Unwrap(vm)
            fs == v.function_stack
            n  == Len(fs)
            b  == backtrace(Sess).ret
        IN /\ b.tag = "Ok"
           /\ Len(b.n) = n
           /\ b.n[1] = v.ip
           /\ \A k \in 1..(n - 1) : b.n[k + 1] = fs[(n - k) + 1].ret_addr

\* d.wasm three calls deep: the position in function 2, then the positions
\* after the calls in function 1 and in function 0
C11_Witness ==
    /\ IsSome(vm)
    /\ Len(Unwrap(vm).function_stack) = 3
    /\ backtrace(Sess).ret =
         OkList("positions", <<CodePosition(2, 0), CodePosition(1, 2), CodePosition(0, 2)>>)

\* C12: with a Code breakpoint at instruction 1 of the entry function as the
\* only entry of the registry, start() returns BreakpointReached with the index
\* of that breakpoint and backtrace() then returns the single position of the
\* breakpoint.
C12_StartStopsAtBreakpoint ==
    (/\ last.op = "start"
     /\ Constructible
     /\ Len(Reg.entries) = 1
     /\ Reg.entries[1].bp = Code(ModuleOf(Unwrap(file).module).entry, 1)) =>
        /\ last.ret = Ok("BreakpointReached", Reg.entries[1].index)
        /\ backtrace(Sess).ret =
             OkList("positions",
                    <<CodePosition(ModuleOf(Unwrap(file).module).entry, 1)>>)

\* a.wasm, whose function 0 has 3 instructions: Code{0,1} got index 0, start
\* returned BreakpointReached(0) and backtrace is [{0,1}]
C12_Witness ==
    /\ last.op = "start"
    /\ IsSome(file)
    /\ LoadedPath = "a.wasm"
    /\ Reg.entries = <<[index |-> 0, bp |-> Code(0, 1)]>>
    /\ last.ret = Ok("BreakpointReached", 0)
    /\ backtrace(Sess).ret = OkList("positions", <<CodePosition(0, 1)>>)

\* the instruction at the VM's instruction pointer
Current(v) ==
    ModuleOf(v.module).funcs[v.ip.func_index + 1][v.ip.instr_index + 1]

\* the position after p in the same function
After(p) == CodePosition(p.func_index, p.instr_index + 1)

\* C13: whenever step returns None, exactly one instruction was dispatched:
\* the VM after the call is the VM a single dispatch step reaches from the VM
\* before it; a call instruction enters the callee (one frame more, at its
\* first instruction), a return leaves it (one frame less, at the return
\* address), any other instruction moves to the next position of the function.
C13_StepNoneIsOneDispatch ==
    [][ (last'.op = "execute_step" /\ last'.ret = Ok("None", 0)) =>
            /\ IsSome(vm) /\ IsSome(vm')
            /\ LET v == Unwrap(vm)
                   w == Unwrap(vm')
                   d == Len(v.function_stack)
               IN /\ d >= 1
                  /\ w = Execute(v, vm_breakpoints(Sess)).vm
                  /\ CASE Current(v).op = "call" ->
                              /\ Len(w.function_stack) = d + 1
                              /\ SubSeq(w.function_stack, 1, d) = v.function_stack
                              /\ Top(w.function_stack).ret_addr = After(v.ip)
                              /\ w.ip = CodePosition(Current(v).arg, 0)
                       [] Current(v).op = "end" ->
                              /\ w.function_stack = Pop(v.function_stack)
                              /\ w.ip = Top(v.function_stack).ret_addr
                       [] OTHER ->
                              /\ w.function_stack = v.function_stack
                              /\ w.ip = After(v.ip) ]_vars

\* d.wasm: a step on the call in function 1, two frames deep, returned None in
\* function 2, three frames deep
C13_Witness ==
    /\ last.op = "execute_step"
    /\ last.ret = Ok("None", 0)
    /\ last.was.depth = 2
    /\ Len(Unwrap(vm).function_stack) = 3
    /\ Unwrap(vm).ip = CodePosition(2, 0)

\* w is inside the function called by the call instruction at which v stands:
\* v's frames are all there and the frame above them returns after the call
InsideCallee(v, w) ==
    LET d == Len(v.function_stack) IN
    /\ Len(w.function_stack) > d
    /\ SubSeq(w.function_stack, 1, d) = v.function_stack
    /\ w.function_stack[d + 1].ret_addr = After(v.ip)

\* C14: step_over invoked on a call instruction reports a breakpoint only at
\* the position the VM has reached, and a breakpoint inside the callee is
\* reported exactly when continue_execution from the same state reaches it:
\* then step_over returns Some(BreakpointReached(i)) and its trap and VM are
\* those of continue_execution.
C14_StepOverReportsReachedBreakpoint ==
    [][ (/\ last'.op = "execute_step_over"
         /\ IsSome(vm)
         /\ Len(Unwrap(vm).function_stack) >= 1
         /\ Current(Unwrap(vm)).op = "call") =>
            LET v == Unwrap(vm)
                w == Unwrap(vm')
                c == continue_execution(Sess)
            IN /\ last'.ret.what = "BreakpointReached" =>
                      \E e \in EntrySet(vm_breakpoints(Sess)) :
                          /\ e.index = last'.ret.n
                          /\ e.bp = Code(w.ip.func_index, w.ip.instr_index)
               /\ (last'.ret.what = "BreakpointReached" /\ InsideCallee(v, w)) =>
                      (last'.ret = c.ret /\ SessNext = c.s)
               /\ (c.ret.what = "BreakpointReached" /\ InsideCallee(v, Unwrap(c.s.vm))) =>
                      (last'.ret = c.ret /\ SessNext = c.s) ]_vars

\* d.wasm: step_over on the call in function 0 stopped on the breakpoint at
\* instruction 1 of function 1
C14_Witness ==
    /\ last.op = "execute_step_over"
    /\ last.ret.what = "BreakpointReached"
    /\ last.was.depth = 1
    /\ IsSome(file) /\ LoadedPath = "d.wasm"
    /\ Len(Unwrap(vm).function_stack) = 2
    /\ Unwrap(vm).ip = CodePosition(1, 1)

\* C15 as stated: step_out invoked at call depth N >= 1 always ends at depth
\* N-1, with ExecutionFinished if N was the outermost frame.
C15_StepOutAlwaysReturns ==
    [][ (/\ last'.op = "execute_step_out"
         /\ IsSome(vm)
         /\ Len(Unwrap(vm).function_stack) >= 1) =>
            LET N == Len(Unwrap(vm).function_stack) IN
            /\ Len(Unwrap(vm').function_stack) = N - 1
            /\ N = 1 => last'.ret = Ok("ExecutionFinished", 0) ]_vars

\* C15: step_out invoked at call depth N >= 1 returns None only with the
\* current frame returned to its caller (depth N-1, at the frame's return
\* address), and ExecutionFinished only if N was the outermost frame; any
\* other result is the trap (breakpoint, watchpoint or fault) that
\* continue_execution meets first from the same state, and the N-1 frames of
\* the callers are still there.
C15_StepOutReturnsUnlessTrapped ==
    [][ (/\ last'.op = "execute_step_out"
         /\ IsSome(vm)
         /\ Len(Unwrap(vm).function_stack) >= 1) =>
            LET v == Unwrap(vm)
                w == Unwrap(vm')
                N == Len(v.function_stack)
                c == continue_execution(Sess)
            IN /\ last'.ret.tag = "Ok"
               /\ last'.ret.what = "None" =>
                      /\ N >= 2
                      /\ w.function_stack = Pop(v.function_stack)
                      /\ w.ip = Top(v.function_stack).ret_addr
               /\ last'.ret.what = "ExecutionFinished" =>
                      (N = 1 /\ w.function_stack = << >>)
               /\ last'.ret.what \notin {"None", "ExecutionFinished"} =>
                      /\ last'.ret = c.ret
                      /\ SessNext = c.s
                      /\ Len(w.function_stack) >= N - 1
                      /\ SubSeq(w.function_stack, 1, N - 1) = Pop(v.function_stack) ]_vars

\* d.wasm: step_out in function 2, three frames deep, returned None after the
\* call in function 1, two frames deep
C15_Witness ==
    /\ last.op = "execute_step_out"
    /\ last.ret = Ok("None", 0)
    /\ last.was.depth = 3
    /\ Len(Unwrap(vm).function_stack) = 2
    /\ Unwrap(vm).ip = CodePosition(1, 2)

\* C16: after a start, step, step_over, step_out or continue_execution that
\* ends in a trap the session still holds the VM, and the backtrace, globals,
\* value-stack and locals queries succeed on it and show that VM; a query
\* leaves the session as it is, and the VM changes only in a resuming
\* operation, a load or a reset.
C16_TrappedVmStaysInspectable ==
    [][ /\ (/\ last'.op \in StepOps \cup {"start"}
            /\ last'.ret.tag = "Ok"
            /\ last'.ret.what # "None") =>
               /\ IsSome(vm')
               /\ backtrace(SessNext).ret.tag = "Ok"
               /\ backtrace(SessNext).ret.n[1] = Unwrap(vm').ip
               /\ globals(SessNext).ret = OkList("globals", Unwrap(vm').globals)
               /\ value_stack(SessNext).ret = OkList("values", Unwrap(vm').value_stack)
               /\ locals(SessNext).ret.tag = "Ok"
               /\ Len(locals(SessNext).ret.n) = Len(Unwrap(vm').function_stack)
        /\ \A q \in Queries : Query(Sess, q).s = Sess
        /\ vm' # vm => last'.op \in VmOps \cup {"load_file"} ]_vars

\* b.wasm: continue_execution ended in the fault of the call to the imported
\* function; the VM stands on that call with the stored value in memory
C16_Witness ==
    /\ last.op = "continue_execution"
    /\ last.ret = Ok("UnsupportedCallToImportedFunction", 0)
    /\ IsSome(vm)
    /\ backtrace(Sess).ret = OkList("positions", <<CodePosition(1, 2)>>)
    /\ memory(Sess).ret = OkList("memory", <<5>>)

\* the operations that dispatch instructions
RunOps == StepOps \cup {"start", "run", "call"}

\* C17: a step on an instruction that writes a global with a Global watchpoint
\* registered returns WatchpointReached with the index of such a watchpoint,
\* and whenever an operation returns WatchpointReached(i) with entry i a
\* Global watchpoint on g, the VM stands after the instruction that wrote g
\* and globals() shows the written value in g.
C17_GlobalWatchpointShowsWrite ==
    [][ /\ (/\ last'.op = "execute_step"
            /\ IsSome(vm)
            /\ Len(Unwrap(vm).function_stack) >= 1
            /\ Current(Unwrap(vm)).op = "global.set"
            /\ Global(Current(Unwrap(vm)).arg) \in
                   {e.bp : e \in EntrySet(vm_breakpoints(Sess))}) =>
               LET v == Unwrap(vm)
                   g == Current(v).arg
               IN /\ last'.ret.what = "WatchpointReached"
                  /\ [index |-> last'.ret.n, bp |-> Global(g)] \in
                         EntrySet(vm_breakpoints(Sess))
                  /\ globals(SessNext).ret.n[g + 1] = Top(v.value_stack)
        /\ (last'.op \in RunOps /\ last'.ret.what = "WatchpointReached") =>
               \E e \in EntrySet(vm_breakpoints(SessNext)) :
                   /\ e.index = last'.ret.n
                   /\ e.bp.kind = "Global" =>
                          LET w  == Unwrap(vm')
                              f  == ModuleOf(w.module).funcs[w.ip.func_index + 1]
                          IN /\ w.ip.instr_index >= 2
                             /\ f[w.ip.instr_index] = I("global.set", e.bp.x)
                             /\ f[w.ip.instr_index - 1].op = "const"
                             /\ globals(SessNext).ret.n[e.bp.x + 1] =
                                    f[w.ip.instr_index - 1].arg ]_vars

\* a.wasm: a step on global.set 0 hit the watchpoint registered under index
\* 1; global 0 holds the written 7
C17_Witness ==
    /\ last.op = "execute_step"
    /\ last.ret = Ok("WatchpointReached", 1)
    /\ [index |-> 1, bp |-> Global(0)] \in EntrySet(Reg)
    /\ globals(Sess).ret = OkList("globals", <<7, 0>>)
    /\ Unwrap(vm).ip = CodePosition(1, 2)

\* r and a - r have the sign of a and r is nearer to zero than b
IsRemainder(a, b, r) ==
    /\ r # 0 => ((r > 0) = (a > 0))
    /\ IF b > 0 THEN -b < r /\ r < b ELSE b < r /\ b < -r

\* C18: for every type implementing Integer, div(a, b) and rem(a, b) return
\* DivisionByZero iff b = 0; div returns SignedIntegerOverflow iff the type is
\* signed, a is its minimum and b = -1; every other pair returns Ok: div the
\* quotient rounded towards zero, rem the remainder with the sign of a, and
\* rem(MIN, -1) = 0.
C18_DivRemTraps ==
    last.op \in {"div", "rem"} =>
        LET t == last.arg[1]
            a == last.arg[2]
            b == last.arg[3]
            overflow == Signed(t) /\ is_min(t, a) /\ b = -1
        IN /\ (last.ret = Err("DivisionByZero")) = (b = 0)
           /\ (last.ret = Err("SignedIntegerOverflow")) = (last.op = "div" /\ overflow)
           /\ last.ret.tag = "Err" =>
                  last.ret.what \in {"DivisionByZero", "SignedIntegerOverflow"}
           /\ (last.ret.tag = "Ok" /\ overflow) => last.ret = Ok("value", 0)
           /\ (last.ret.tag = "Ok" /\ ~overflow /\ last.op = "div") =>
                  IsRemainder(a, b, a - last.ret.n * b)
           /\ (last.ret.tag = "Ok" /\ ~overflow /\ last.op = "rem") =>
                  /\ IsRemainder(a, b, last.ret.n)
                  /\ TruncDiv(a - last.ret.n, b) * b = a - last.ret.n
           /\ (last.ret.tag = "Ok" /\ ~Signed(t)) => last.ret.n >= 0

\* i32: rem(MIN, -1) returned Ok(0)
C18_Witness ==
    /\ last.op = "rem"
    /\ last.arg = <<"i32", -2147483647 - 1, -1>>
    /\ last.ret = Ok("value", 0)

\* C19: for every type implementing LittleEndianConvert, to_little_endian
\* into a buffer of the type's size (of at least one byte for i8 and u8)
\* completes, from_little_endian of the bytes it wrote gives back the value
\* bit for bit, NaN payloads included, and byte k written holds bits
\* 8k..8k+7 of the value.
C19_LittleEndianRoundTrip ==
    last.op = "little_endian" =>
        LET t   == last.arg[1]
            v   == last.arg[2]
            len == last.arg[3]
            e   == last.ret.what
            d   == last.ret.n
        IN /\ e.panic = (IF size_of(t) = 1 THEN len = 0 ELSE len # size_of(t))
           /\ ~e.panic =>
                  /\ Len(e.out) = len
                  /\ ~d.panic
                  /\ d.out = v
                  /\ \A k \in 0..(size_of(t) - 1) :
                         /\ e.out[k + 1] \in 0..255
                         /\ \A j \in 0..7 :
                                (e.out[k + 1] \div (2 ^ j)) % 2 = v[8 * k + j + 1]

\* f32: the signalling NaN 0x7f800001 was written as 01 00 80 7f and read back
C19_Witness ==
    /\ last.op = "little_endian"
    /\ last.arg = <<"f32", NaN(32, {1}, 0), 4>>
    /\ last.ret.what = Returned(<<1, 0, 128, 127>>)
    /\ last.ret.n = Returned(NaN(32, {1}, 0))

\* C20: Value::to::<T>() returns None exactly when T's value type differs
\* from the stored variant, 32 against 64 bits or integer against float;
\* otherwise Value::from(x).to::<T>() returns Some with the bit pattern of x,
\* a u32 or u64 included, which is stored in the signed variant with its bits
\* as they are.
C20_ValueToMatchesVariant ==
    last.op = "to" =>
        LET S    == last.arg[1]
            x    == last.arg[2]
            T    == last.arg[3]
            val  == last.ret.what
            same == size_of(S) = size_of(T) /\ (S \in Floats) = (T \in Floats)
        IN /\ val.variant = value_type(S)
           /\ val.bits = x
           /\ (last.ret.n = None) = (value_type(T) # val.variant)
           /\ (value_type(T) = val.variant) = same
           /\ same => last.ret.n = Some(x)

\* the u32 0xffffffff is stored as I32 with all bits set and read back as u32
C20_Witness ==
    /\ last.op = "to"
    /\ last.arg = <<"u32", Ones(32), "u32">>
    /\ last.ret.what = Value("I32", Ones(32))
    /\ last.ret.n = Some(Ones(32))

-----------------------------------------------------------------------------
(* Properties of the front end and of the import-call bridge.              *)

\* caller c's handler takes the step that leaves pc
Leaves(c, pc) == callers[c].pc = pc /\ callers'[c].pc # pc

\* the instruction the VM v stands on
InstructionAt(v) ==
    ModuleOf(v.module).funcs[v.ip.func_index + 1][v.ip.instr_index + 1]

UnsupportedCall == "UnsupportedCallToImportedFunction"

\* C21: when the bridge cannot supply a result (the default handler always;
\* the remote handler when the connection, the RPC or the worker thread
\* fails), the VM operation returns UnsupportedCallToImportedFunction with
\* the index of the imported function being called, and no return value,
\* global or memory byte is written into the VM.
C21_BridgeFailureTrapsWithoutWriting ==
    [][ \A c \in DOMAIN callers :
          /\ (Leaves(c, "bridge") /\ last'.arg[1].kind \in BridgeFailures) =>
                LET h == Unwrap(vm)
                    w == Unwrap(vm')
                IN /\ last'.ret = Ok(UnsupportedCall, h.ip.func_index)
                   /\ h.ip.func_index \in ModuleOf(h.module).imported
                   /\ InstructionAt(w) = I("call", h.ip.func_index)
                   /\ callers'[c].reply =
                          Reply("Nok", UnsupportedCall, << h.ip.func_index >>)
                   /\ w.value_stack = h.value_stack
                   /\ w.globals = h.globals
                   /\ w.memory = h.memory
          /\ (Leaves(c, "locked") /\ callers'[c].reply.error_reason = UnsupportedCall) =>
                LET w == Unwrap(vm') IN
                /\ srv.handler = "default"
                /\ InstructionAt(w).op = "call"
                /\ InstructionAt(w).arg \in ModuleOf(w.module).imported
                /\ callers'[c].reply = Reply("Nok", UnsupportedCall, << InstructionAt(w).arg >>)
                /\ (callers[c].req.arg.text = "Step" /\ IsSome(vm)) => vm' = vm
      ]_vars

\* the remote handler's worker thread has died during a run_code request, and
\* the request is about to reply with the fault
C21_Witness ==
    /\ last.op = "handle_import_function"
    /\ last.arg[1].kind = "thread"
    /\ last.ret = Ok(UnsupportedCall, 0)
    /\ \E c \in DOMAIN callers :
           /\ callers[c].pc = "replying"
           /\ callers[c].req.rpc = "run_code"
           /\ callers[c].req.arg.text = "Continue"
           /\ callers[c].reply.status = "Nok"
    /\ Unwrap(vm).memory = << 5 >>

\* where a handler stands between taking the lock and returning
Critical == {"locked", "bridge", "resume", "started", "replying"}

\* C22: session operations are mutually exclusive: a handler holds the one
\* session lock from before its first access to the session until after its
\* last, so under any interleaving of callers what a handler sees and leaves
\* is what it would see and leave run alone from the session it found when
\* it took the lock, the handlers ordered as they took the lock.
C22_OperationsAreSerial ==
    /\ Cardinality({c \in DOMAIN callers : callers[c].pc \in Critical}) <= 1
    /\ \A c \in DOMAIN callers :
          /\ callers[c].pc \in Critical => srv.holder = c
          /\ callers[c].pc = "locked" => Sess = callers[c].snap
          /\ callers[c].pc \in {"bridge", "replying"} =>
                LET e == Serial(callers[c].snap, srv.handler, srv.overflow_checks,
                                callers[c].req, callers[c].answers)
                IN /\ e.s = Sess
                   /\ e.pc = callers[c].pc
                   /\ e.reply = callers[c].reply

\* a Start that went through the remote call is about to reply while the
\* other caller's load_module waits for the lock
C22_Witness ==
    /\ DOMAIN callers = Callers
    /\ \E c \in Callers, w \in Callers :
           /\ callers[c].pc = "replying"
           /\ callers[c].req.rpc = "run_code"
           /\ callers[c].req.arg.text = "Start"
           /\ Len(callers[c].answers) = 1
           /\ callers[c].reply.status = "Finish"
           /\ Sess # callers[c].snap
           /\ callers[w].pc = "waiting"
           /\ callers[w].req.rpc = "load_module"
           /\ callers[w].req.arg.text = "b.wasm"

\* caller c's run_code has called the remote side and has not returned yet
InBridgeCall(c) ==
    \/ callers[c].pc = "bridge"
    \/ callers[c].pc \in {"resume", "started", "replying"} /\ callers[c].answers # << >>

\* C23: while the VM is blocked in an import-bridge call made from within a
\* run_code request, the session lock stays held by that request: until the
\* bridge has responded and the request has returned, no other request, an
\* inspection query or a breakpoint change included, has the lock or stands
\* anywhere past taking it.
C23_LockHeldAcrossBridgeCall ==
    \A c \in DOMAIN callers :
        InBridgeCall(c) =>
            /\ srv.holder = c
            /\ ~srv.poisoned
            /\ callers[c].req.rpc = "run_code"
            /\ \A o \in DOMAIN callers \ {c} : callers[o].pc \in {"idle", "waiting"}

\* a Start waits for the remote side while the other caller's get_global
\* waits for the lock
C23_Witness ==
    /\ DOMAIN callers = Callers
    /\ \E c \in Callers, w \in Callers :
           /\ callers[c].pc = "bridge"
           /\ callers[c].req.arg.text = "Start"
           /\ callers[w].pc = "waiting"
           /\ callers[w].req.rpc = "get_global"
           /\ srv.holder = c

\* C24: the session lock is released on every exit path of every operation,
\* so a caller blocked on the lock eventually acquires it once the operation
\* in flight has ended: no exit path leaves the lock permanently unavailable
\* to later callers.
C24_BlockedCallerAcquires ==
    \A c \in Callers : (callers[c].pc = "waiting") ~> (callers[c].pc = "locked")

\* C27: after a successful import-bridge call the VM's globals vector and
\* default memory equal the globals vector and the memory image the bridge
\* returned, whatever their lengths, the return value is pushed on the value
\* stack exactly when one was returned, and the handler does not abort.
C27_WriteBackIsVerbatim ==
    [][ \A c \in DOMAIN callers :
          (Leaves(c, "bridge") /\ last'.arg[1].kind = "response") =>
              LET h == Unwrap(vm)
                  w == Unwrap(vm')
                  response == last'.arg[1]
              IN /\ callers'[c].pc # "panicked"
                 /\ response.globals =
                        [i \in DOMAIN w.globals |-> Value_from_value(w.globals[i])]
                 /\ w.memory = response.memory
                 /\ w.value_stack =
                        IF IsSome(response.return_value)
                        THEN Append(h.value_stack,
                                    Value_to_value(Unwrap(response.return_value)).out)
                        ELSE h.value_stack
      ]_vars

\* C26: whenever step_over started at call depth D returns None, the call
\* depth afterwards is at most D: it never returns None stopped inside a
\* frame deeper than the one it was invoked in, so a call made from the
\* current frame has run to completion.
C26_StepOverNoneNotDeeper ==
    (last.op = "execute_step_over" /\ last.ret = Ok("None", 0)) =>
        /\ IsSome(vm)
        /\ last.was.depth >= 1
        /\ Len(Unwrap(vm).function_stack) <= last.was.depth

\* d.wasm: step_over on the call in function 0 returned None behind the
\* call, with functions 1 and 2 run to their ends
C26_Witness ==
    /\ last.op = "execute_step_over"
    /\ last.ret = Ok("None", 0)
    /\ last.was.depth = 1
    /\ IsSome(file) /\ LoadedPath = "d.wasm"
    /\ Len(Unwrap(vm).function_stack) = 1
    /\ Unwrap(vm).ip = CodePosition(0, 2)

\* C29: in every reachable session a VM exists only if a File is loaded, and
\* that VM is bound to the module and to the breakpoint registry of the File
\* now loaded, never to those of a File loaded before; debug info is present
\* exactly when a File is.
C29_VmBoundToLoadedFile ==
    /\ IsSome(vm) =>
           /\ IsSome(file)
           /\ Unwrap(vm).module = Unwrap(file).module
           /\ Unwrap(vm).breakpoints = Unwrap(file).breakpoints
           /\ Unwrap(vm).breakpoints \in DOMAIN heap
    /\ IsSome(info) <=> IsSome(file)
    /\ IsSome(info) => Returned(Unwrap(info)) = DebugInfo_new(Unwrap(file).file_path)

\* a VM started on the second File the session has loaded, which has a
\* breakpoint of its own
C29_Witness ==
    /\ IsSome(file) /\ IsSome(vm) /\ IsSome(info)
    /\ Unwrap(file).module.id = 2
    /\ Unwrap(vm).module = Unwrap(file).module
    /\ last.op = "start"
    /\ last.ret.what = "BreakpointReached"
    /\ Len(vm_breakpoints(Sess).entries) = 1

\* C30: a start, run or call that fails with InitError leaves the session as
\* it was: the File and the breakpoint registry are unchanged and the VM slot
\* holds what it held before the call.
C30_InitErrorLeavesSession ==
    [][ (last'.op \in {"start", "run", "call"} /\ last'.ret = Err("InitError")) =>
            /\ SessNext = Sess
            /\ IsSome(file)
            /\ ~ModuleOf(Unwrap(file).module).init_ok ]_vars

\* c.wasm with a breakpoint set: start has failed with InitError
C30_Witness ==
    /\ last.op = "start"
    /\ last.ret = Err("InitError")
    /\ IsSome(file) /\ LoadedPath = "c.wasm"
    /\ vm = None
    /\ Len(breakpoints_and_unlock(Sess).entries) >= 1

\* C25: a Code breakpoint at the position where execution resumes does not
\* fire before that instruction executes: the next continue_execution or
\* step of a VM standing on a breakpoint dispatches the instruction there
\* first, so it never reports a breakpoint with the VM where it was.
C25_ResumeExecutesBreakpointInstruction ==
    [][ (/\ last'.op \in StepOps
         /\ IsSome(vm)
         /\ Unwrap(vm).function_stack # << >>
         /\ IsSome(find_code(vm_breakpoints(Sess), Unwrap(vm).ip))) =>
            LET v     == Unwrap(vm)
                w     == Unwrap(vm')
                reg   == vm_breakpoints(Sess)
                first == Execute(v, reg)
                bp    == find_code(reg, first.vm.ip)
            IN /\ last'.op = "execute_step" =>
                      /\ w = first.vm
                      /\ last'.ret = IF first.trap # NoTrap THEN OkOptTrap(first.trap)
                                     ELSE IF IsSome(bp)
                                     THEN Ok("BreakpointReached", Unwrap(bp))
                                     ELSE Ok("None", 0)
               /\ last'.op = "continue_execution" =>
                      IF first.trap # NoTrap
                      THEN w = first.vm /\ last'.ret = OkTrap(first.trap)
                      ELSE IF IsSome(bp)
                      THEN w = first.vm /\ last'.ret = Ok("BreakpointReached", Unwrap(bp))
                      ELSE LET c == continue_execution([Sess EXCEPT !.vm = Some(first.vm)])
                           IN SessNext = c.s /\ last'.ret = c.ret
               /\ last'.ret.what = "BreakpointReached" => w # v ]_vars

\* d.wasm with breakpoints 0 at the call of function 0 and 1 at the call of
\* function 1: continue_execution from the first has stopped at the second
C25_Witness ==
    /\ last.op = "continue_execution"
    /\ last.ret = Ok("BreakpointReached", 1)
    /\ last.was.depth = 1
    /\ IsSome(file) /\ LoadedPath = "d.wasm"
    /\ find_code(vm_breakpoints(Sess), CodePosition(0, 1)) = Some(0)
    /\ Unwrap(vm).ip = CodePosition(1, 1)
    /\ Len(Unwrap(vm).function_stack) = 2

\* the operations that run the VM
DispatchOps == StepOps \cup {"start", "run", "call"}

\* C28: the VM consults the File's live registry, not a snapshot taken when
\* the VM was created: its handle is the File's, so after every operation
\* that runs the VM a reported BreakpointReached(i) is the Code entry i that
\* the File's registry holds now for the VM's position, a WatchpointReached(i)
\* is a watchpoint entry i of it, and a VM that stopped with no trap does not
\* stand on any Code entry of it; an entry deleted or cleared is reported by
\* no later trap.
C28_VmConsultsLiveRegistry ==
    /\ IsSome(vm) => Unwrap(vm).breakpoints = Unwrap(file).breakpoints
    /\ (last.op \in DispatchOps /\ last.ret.tag = "Ok") =>
           LET v == Unwrap(vm) IN
           /\ last.ret.what = "BreakpointReached" =>
                  find_code(Reg, v.ip) = Some(last.ret.n)
           /\ last.ret.what = "WatchpointReached" =>
                  \E e \in EntrySet(Reg) :
                      /\ e.index = last.ret.n
                      /\ e.bp.kind \in {"Global", "Memory"}
           /\ last.ret.what = "None" => find_code(Reg, v.ip) = None

\* a.wasm: the VM stopped inside function 1 on entry 0; with entry 0 deleted
\* since, continue_execution has run on and stopped on entry 1, the
\* breakpoint at instruction 1 of function 0
C28_Witness ==
    /\ last.op = "continue_execution"
    /\ last.ret = Ok("BreakpointReached", 1)
    /\ last.was.depth = 2
    /\ IsSome(file) /\ LoadedPath = "a.wasm"
    /\ Unwrap(vm).ip = CodePosition(0, 1)
    /\ Indices(Reg) = {1}

\* C31: the front-end locals query with depth d on a VM whose function stack
\* has n frames succeeds iff -n <= d <= -1, returning the locals of frame
\* n+d and the function that frame is executing (the instruction pointer's
\* function for d = -1, otherwise the function of the return address stored
\* in frame n+d+1); for every other d, extreme 32-bit values included, it
\* replies with an error and does not abort.
C31_LocalsQuery ==
    (last.op = "get_local" /\ last.ret.pc # "poisoned" /\ IsSome(vm)) =>
        LET v  == Unwrap(vm)
            fs == v.function_stack
            n  == Len(fs)
            d  == last.arg[1]
        IN /\ last.ret.pc = "replying"
           /\ IF -n <= d /\ d <= -1
              THEN last.ret.reply =
                       Reply("Ok", "",
                             << IF d = -1 THEN v.ip.func_index
                                ELSE fs[n + d + 2].ret_addr.func_index,
                                fs[n + d + 1].locals >>)
              ELSE /\ last.ret.reply.status = "Nok"
                   /\ last.ret.reply.payload = << >>

\* C32: when no VM exists, backtrace, globals, memory, the step variants and
\* continue_execution fail with NoRunningInstance, a File being loaded or
\* not, and leave the session unchanged; reset_vm always succeeds, removes
\* only the VM and keeps the File and its breakpoints.
C32_NoRunningInstance ==
    /\ [](vm = None =>
             \A q \in {"backtrace", "globals", "memory"} :
                 Query(Sess, q) = [s |-> Sess, ret |-> Err("NoRunningInstance")])
    /\ [][ /\ (vm = None /\ last'.op \in StepOps) =>
                  (last'.ret = Err("NoRunningInstance") /\ SessNext = Sess)
           /\ last'.op = "reset_vm" =>
                  /\ last'.ret = OkUnit
                  /\ vm' = None
                  /\ file' = file
                  /\ info' = info
                  /\ IsSome(file) => (RegNext = Reg /\ heap' = heap) ]_vars

\* continue_execution has failed with NoRunningInstance on a session that
\* holds a File with a breakpoint and no VM
C32_Witness ==
    /\ last.op = "continue_execution"
    /\ last.ret = Err("NoRunningInstance")
    /\ IsSome(file)
    /\ vm = None
    /\ Len(breakpoints_and_unlock(Sess).entries) = 1
    /\ backtrace(Sess).ret = Err("NoRunningInstance")

====
